---- MODULE Spec2Model ----
(***************************************************************************)
(* Marker synchronisation, live-update channel and navigation tracker of   *)
(* the map screens (components/MapComponent.tsx and components/Pins.tsx),  *)
(* the routing of HomeScreen (App.tsx) and the photo list of               *)
(* components/InsertarCoordenadasComponent.tsx.                            *)
(*                                                                         *)
(* A handler of the JavaScript event loop is one action: it runs to its    *)
(* next await.  The instructions a handler injects into the WebView are    *)
(* collected, in order, in the variable issued.                            *)
(***************************************************************************)
EXTENDS Integers, Sequences, FiniteSets, TLC

VARIABLES
    screen,       \* which component this instance is: "MapComponent" | "Pins"
    phase,        \* "init" (not mounted yet) | "mounted" | "unmounted"
    markers,      \* useState<MarkerData[]>: the Marker Store
    issued,       \* scripts injected into the WebView by the last handler
    last,         \* what the last handler did (log line / branch taken)
    inflight,     \* bulk fetches awaiting their response: captured closures
    wsRef,        \* wsRef.current: 0 is null, otherwise a socket number
    sockets,      \* state of every WebSocket object created so far
    osAppState,   \* the application state reported by the OS
    appStateCur,  \* appState.current
    oldIn,        \* reconciler run on its own: argument oldMarkers
    newIn,        \* reconciler run on its own: argument newMarkers
    syncDone,     \* reconciler run on its own: the call has returned
    userLocation,           \* useState: NoLocation is null, otherwise a position
    isNavigating,           \* useState<boolean>
    navigationSubscription, \* navigationSubscription.current: 0 is null
    subs,                   \* every position subscription created so far
    pendingNav,             \* startNavigation calls awaiting watchPositionAsync
    navDest,                \* destLat/destLng of the latest startNavigation call
    locating,               \* the mount effect awaits the first position
    location,               \* useState<MarkerData>: where the map document is centred
    searchQuery,            \* useState<string>
    pendingSearch,          \* searchLocation calls awaiting the geocoding response
    selectedMarker,         \* useState<MarkerData | null>: NoMarker is null
    pendingUi,              \* save and delete requests awaiting their response
    isSaving,               \* useState<boolean>
    markersMap,             \* markersMap of the WebView document: the payloads it holds
    documentLoaded,         \* the script of the WebView document has run
    isLoading,              \* HomeScreen useState: the splash screen is up
    isAuthenticated,        \* HomeScreen useState
    isVisitor,              \* HomeScreen useState
    isRegister,             \* AuthScreen useState: Register is shown instead of Login
    formMounted,            \* an InsertarCoordenadasComponent instance is mounted
    images,                 \* InsertarCoordenadasComponent useState<string[]>
    savedImages,            \* the item '@saved_images' of AsyncStorage
    pendingPhoto,           \* handleTakePhoto / handlePickImage calls awaiting their result
    pendingWrites,          \* AsyncStorage.setItem calls not yet completed, oldest first
    pendingLoad             \* loadImages awaits AsyncStorage.getItem

vars == <<screen, phase, markers, issued, last, inflight, wsRef, sockets,
          osAppState, appStateCur, oldIn, newIn, syncDone,
          userLocation, isNavigating, navigationSubscription, subs, pendingNav,
          navDest, locating,
          location, searchQuery, pendingSearch, selectedMarker, pendingUi, isSaving,
          markersMap, documentLoaded,
          isLoading, isAuthenticated, isVisitor, isRegister,
          formMounted, images, savedImages, pendingPhoto, pendingWrites, pendingLoad>>

uiVars == <<location, searchQuery, pendingSearch, selectedMarker, pendingUi, isSaving>>
storeVars == <<markers, inflight>>
connVars  == <<wsRef, sockets, osAppState, appStateCur>>
syncVars  == <<oldIn, newIn, syncDone>>
navVars   == <<userLocation, isNavigating, navigationSubscription, subs, pendingNav,
               navDest, locating>>
homeVars  == <<isLoading, isAuthenticated, isVisitor, isRegister>>
formVars  == <<formMounted, images, savedImages, pendingPhoto, pendingWrites, pendingLoad>>
mapState  == <<screen, phase, issued, storeVars, connVars, syncVars, navVars,
               uiVars, markersMap, documentLoaded>>

-----------------------------------------------------------------------------
(* Bounds *)

MaxMarkers == 2     \* longest bulk-fetch response / reconciler argument
MaxStore == 2       \* longest Marker Store a push 'added' event still extends
MaxInflight == 2    \* bulk fetches of Pins awaiting a response at a time
MaxSockets == 3     \* WebSocket objects one instance creates
MaxSubs == 2        \* position subscriptions one instance creates
MaxPendingNav == 2  \* startNavigation calls awaiting their subscription at a time
MaxCandidates == 2     \* most candidates in a geocoding response
MaxPendingSearch == 2  \* searchLocation calls awaiting their response at a time
MaxGeoMarkers == 2  \* longest Marker Store handleFindNearest searches

-----------------------------------------------------------------------------
(* JavaScript values *)

\* the value undefined (a missing property)
Undefined == "<undefined>"

\* String(v): a string is itself, undefined becomes the text "undefined"
JSString(v) == IF v = Undefined THEN "undefined" ELSE v

\* truthiness of a string-or-undefined value
Truthy(v) == v # Undefined /\ v # ""

\* values Math.random() can return
Randoms == {"0.1", "0.9"}

\* `${latitude}-${longitude}-${Math.random()}`
TemplateId(lat, lng, r) ==
    CASE lat = 0 /\ lng = 0 /\ r = "0.1" -> "0-0-0.1"
      [] lat = 0 /\ lng = 0 /\ r = "0.9" -> "0-0-0.9"
      [] lat = 1 /\ lng = 0 /\ r = "0.1" -> "1-0-0.1"
      [] lat = 1 /\ lng = 0 /\ r = "0.9" -> "1-0-0.9"
      [] OTHER -> "n-n-r"

-----------------------------------------------------------------------------
(* Raw place records of the API and of the push channel *)

Place(pid, iid, la, lo, pol, pla, st) ==
    [place_id |-> pid, id |-> iid, latitude |-> la, longitude |-> lo,
     pollution_level |-> pol, plastic_level |-> pla, status |-> st]

ExternalIds == {"a", "b"}

RawPlaces ==
    { Place(x, x, 0, 0, "Bajo", "Bajo", "Pendiente") : x \in ExternalIds }
    \cup { Place("a", "a", 1, 0, "Alto", "Bajo", "Completo") }
    \cup { Place(Undefined, Undefined, 0, 0, Undefined, Undefined, Undefined) }

RECURSIVE SeqsUpTo(_, _)
SeqsUpTo(S, n) ==
    IF n = 0 THEN { <<>> }
    ELSE LET shorter == SeqsUpTo(S, n - 1)
         IN  shorter \cup { Append(s, x) : s \in { t \in shorter : Len(t) = n - 1 }, x \in S }

\* bodies a bulk fetch can return
Responses == SeqsUpTo(RawPlaces, MaxMarkers)

-----------------------------------------------------------------------------
(* MarkerData and its normalisation *)

MarkerData(i, la, lo, pol, pla, st) ==
    [id |-> i, lat |-> la, lng |-> lo,
     contaminationLevel |-> pol, plasticLevel |-> pla, status |-> st]

\* MapComponent.tsx mapAPIToMarkers, one item; the same object literal
\* normalises the place of a push event in MapComponent.tsx
MapItemToMarker(item) ==
    MarkerData(JSString(item.place_id), item.latitude, item.longitude,
               item.pollution_level, item.plastic_level, item.status)

\* Pins.tsx mapAPIToMarkers, one item: id is item.id or a random template
PinsItemToMarker(item, r) ==
    MarkerData(JSString(IF Truthy(item.id) THEN item.id
                        ELSE TemplateId(item.latitude, item.longitude, r)),
               item.latitude, item.longitude,
               item.pollution_level, item.plastic_level, item.status)

\* Pins.tsx onmessage 'added': id is place.place_id or a random template
PinsPlaceToMarker(place, r) ==
    MarkerData(JSString(IF Truthy(place.place_id) THEN place.place_id
                        ELSE TemplateId(place.latitude, place.longitude, r)),
               place.latitude, place.longitude,
               place.pollution_level, place.plastic_level, place.status)

\* data.map(f)
MapSeq(f(_), s) == [i \in 1..Len(s) |-> f(s[i])]

\* MapComponent.tsx mapAPIToMarkers
MapAPIToMarkers(data) == MapSeq(MapItemToMarker, data)

\* Pins.tsx mapAPIToMarkers; rs[i] is the value Math.random() returns for item i
PinsAPIToMarkers(data, rs) == [i \in 1..Len(data) |-> PinsItemToMarker(data[i], rs[i])]

\* array.filter(p)
RECURSIVE Filter(_, _)
Filter(p(_), s) ==
    IF s = <<>> THEN <<>>
    ELSE IF p(Head(s)) THEN <<Head(s)>> \o Filter(p, Tail(s))
         ELSE Filter(p, Tail(s))

\* the ids of a marker list, as new Set(list.map(m => m.id))
IdSet(list) == { list[i].id : i \in 1..Len(list) }

\* array.some(m => m.id === id)
SomeId(list, id) == \E i \in 1..Len(list) : list[i].id = id

-----------------------------------------------------------------------------
(* Instructions to the Rendering Surface *)

\* JSON.stringify(marker): properties whose value is undefined are left out
JSONStringify(m) ==
    [f \in {"id", "lat", "lng"} \cup
           { g \in {"contaminationLevel", "plasticLevel", "status"} : m[g] # Undefined }
       |-> m[f]]

AddMarker(m) == [type |-> "ADD_MARKER", payload |-> JSONStringify(m)]
RemoveMarker(id) == [type |-> "REMOVE_MARKER", payload |-> [id |-> id]]

\* webViewRef.current?.injectJavaScript(script), for each script in turn:
\* webView is FALSE when webViewRef.current is null
injectJavaScript(webView, scripts) == IF webView THEN scripts ELSE <<>>

\* syncMarkersWithMap that adds every marker of newMarkers
SyncAddsEveryNew(webView, oldMarkers, newMarkers) ==
    LET newSet == IdSet(newMarkers)
        NotNew(m) == m.id \notin newSet
        removedMarkers == Filter(NotNew, oldMarkers)
    IN  injectJavaScript(webView,
            MapSeq(AddMarker, newMarkers)
            \o [i \in 1..Len(removedMarkers) |-> RemoveMarker(removedMarkers[i].id)])

\* syncMarkersWithMap that compares whole markers instead of ids
SyncComparesWholeMarkers(webView, oldMarkers, newMarkers) ==
    LET NotOld(m) == \A i \in 1..Len(oldMarkers) : oldMarkers[i] # m
        NotNew(m) == \A i \in 1..Len(newMarkers) : newMarkers[i] # m
        addedMarkers == Filter(NotOld, newMarkers)
        removedMarkers == Filter(NotNew, oldMarkers)
    IN  injectJavaScript(webView,
            MapSeq(AddMarker, addedMarkers)
            \o [i \in 1..Len(removedMarkers) |-> RemoveMarker(removedMarkers[i].id)])

\* syncMarkersWithMap with addedMarkers filtered against the ids of newMarkers
SyncAddedAgainstNew(webView, oldMarkers, newMarkers) ==
    LET newSet == IdSet(newMarkers)
        NotNew(m) == m.id \notin newSet
        addedMarkers == Filter(NotNew, newMarkers)
        removedMarkers == Filter(NotNew, oldMarkers)
    IN  injectJavaScript(webView,
            MapSeq(AddMarker, addedMarkers)
            \o [i \in 1..Len(removedMarkers) |-> RemoveMarker(removedMarkers[i].id)])

\* syncMarkersWithMap(oldMarkers, newMarkers): the scripts it injects, in order
syncMarkersWithMap(webView, oldMarkers, newMarkers) ==
    LET newSet == IdSet(newMarkers)
        oldSet == IdSet(oldMarkers)
        NotOld(m) == m.id \notin oldSet
        NotNew(m) == m.id \notin newSet
        addedMarkers == Filter(NotOld, newMarkers)
        removedMarkers == Filter(NotNew, oldMarkers)
    IN  injectJavaScript(webView,
            MapSeq(AddMarker, addedMarkers)
            \o [i \in 1..Len(removedMarkers) |-> RemoveMarker(removedMarkers[i].id)])

-----------------------------------------------------------------------------
(* Push messages *)

Envelope(action, hasPlace, place, id) ==
    [action |-> action, hasPlace |-> hasPlace, place |-> place, id |-> id]

NoPlace == Place(Undefined, Undefined, 0, 0, Undefined, Undefined, Undefined)

\* event.data: a text that is not JSON, the JSON text null, or a JSON object
\* {action, place?, id?}
Messages ==
    { [kind |-> k, data |-> Envelope(Undefined, FALSE, NoPlace, Undefined)]
        : k \in {"not-json", "null"} }
    \cup { [kind |-> "object", data |-> Envelope(a, TRUE, p, Undefined)]
        : a \in {"added", "updated", "deleted"}, p \in RawPlaces }
    \cup { [kind |-> "object", data |-> Envelope("deleted", FALSE, NoPlace, x)]
        : x \in ExternalIds }
    \cup { [kind |-> "object", data |-> Envelope(a, FALSE, NoPlace, Undefined)]
        : a \in {"added", "ping"} }

\* JSON.parse(event.data) followed by the first property read data.action:
\* JSON.parse throws on a text that is not JSON, and reading a property of
\* null throws a TypeError
ParseThrows(msg) == msg.kind \in {"not-json", "null"}

\* prev.map(marker => marker.id === updated.id ? updated : marker)
ReplaceById(list, updated) ==
    [i \in 1..Len(list) |-> IF list[i].id = updated.id THEN updated ELSE list[i]]

\* prev.filter(m => m.id !== id)
RemoveById(list, id) ==
    LET Keep(m) == m.id # id IN Filter(Keep, list)

\* s without its i-th element
RemoveAt(s, i) == SubSeq(s, 1, i - 1) \o SubSeq(s, i + 1, Len(s))

-----------------------------------------------------------------------------
(* The reconciler run on its own *)

MarkerLists == { MapAPIToMarkers(d) : d \in Responses }

SocketIds == 1..MaxSockets
SubIds == 1..MaxSubs

\* useState(null) for userLocation
NoLocation == [lat |-> -1, lng |-> -1]

\* the WebView is rendered unconditionally, so webViewRef.current is set from
\* the first commit until the component unmounts
WebViewRef == phase = "mounted"

\* the center the base document of the WebView is generated for:
\* MapComponent.tsx generateBaseHTML(location), Pins.tsx
\* generateBaseHTML(markers[0] || default), in whole degrees
DocumentCenter(scr, loc, list) ==
    IF scr = "MapComponent" THEN <<loc.lng, loc.lat>>
    ELSE IF list # <<>> THEN <<list[1].lng, list[1].lat>>
         ELSE <<-77, -12>>

\* addMarker(payload): an id the document already holds is not added again
addMarker(map, payload) ==
    IF \E m \in map : m.id = payload.id THEN map ELSE map \cup {payload}

\* removeMarker(id)
removeMarker(map, id) == { m \in map : m.id # id }

\* the 'message' listener of the document, for each script in turn
RECURSIVE Deliver(_, _)
Deliver(map, scripts) ==
    IF scripts = <<>> THEN map
    ELSE LET script == Head(scripts)
         IN  Deliver(CASE script.type = "ADD_MARKER" -> addMarker(map, script.payload)
                       [] script.type = "REMOVE_MARKER" -> removeMarker(map, script.payload.id)
                       [] OTHER -> map,
                     Tail(scripts))

\* the WebView after a handler: a document whose script has run receives
\* the scripts the handler injected, and before that nothing listens to
\* them; the commit that follows starts loading a new document when the
\* html of the source has changed; there is no document before the mount
\* and after the unmount
SurfaceStep ==
    /\ documentLoaded' =
          IF phase' # "mounted" THEN FALSE
          ELSE IF DocumentCenter(screen', location', markers')
                     # DocumentCenter(screen, location, markers)
               THEN FALSE
               ELSE documentLoaded
    /\ markersMap' = IF documentLoaded' THEN Deliver(markersMap, issued') ELSE {}

InitSurface == markersMap = {} /\ documentLoaded = FALSE

\* the item '@saved_images' does not exist
NoItem == [exists |-> FALSE, value |-> <<>>]

\* the item '@saved_images' holds the JSON text of list
Item(list) == [exists |-> TRUE, value |-> list]

\* the map screen lives in the main navigator of a user who has logged in;
\* no InsertarCoordenadasComponent has been mounted
InitHosted ==
    /\ isLoading = FALSE /\ isAuthenticated = TRUE /\ isVisitor = FALSE
    /\ isRegister = FALSE
    /\ formMounted = FALSE /\ images = <<>> /\ savedImages = NoItem
    /\ pendingPhoto = <<>> /\ pendingWrites = <<>> /\ pendingLoad = FALSE

\* the state of a component before its effects have run
InitStore == markers = <<>> /\ inflight = <<>>
InitConn ==
    /\ wsRef = 0
    /\ sockets = [s \in SocketIds |-> "none"]
    /\ osAppState = "active"
    /\ appStateCur = "active"
InitNav ==
    /\ userLocation = NoLocation
    /\ isNavigating = FALSE
    /\ navigationSubscription = 0
    /\ subs = [k \in SubIds |-> [state |-> "none", dest |-> NoLocation]]
    /\ pendingNav = <<>>
    /\ navDest = NoLocation
    /\ locating = FALSE
InitSyncIdle == oldIn = <<>> /\ newIn = <<>> /\ syncDone = FALSE

\* useState<MarkerData | null>(null) for selectedMarker
NoMarker == [id |-> Undefined]

\* the initial location: Lima, in whole degrees
DefaultLocation == [id |-> "default-location", lat |-> -12, lng |-> -77]

InitUi ==
    /\ location = DefaultLocation
    /\ searchQuery = ""
    /\ pendingSearch = 0
    /\ selectedMarker = NoMarker
    /\ pendingUi = <<>>
    /\ isSaving = FALSE

InitSync ==
    /\ oldIn \in MarkerLists
    /\ newIn \in MarkerLists
    /\ syncDone = FALSE
    /\ issued = <<>>
    /\ last = "none"
    /\ screen = "MapComponent"
    /\ phase = "mounted"
    /\ InitStore /\ InitConn /\ InitNav /\ InitUi /\ InitSurface /\ InitHosted

\* one call syncMarkersWithMap(oldIn, newIn) with the WebView mounted
CallSync ==
    /\ ~syncDone
    /\ issued' = syncMarkersWithMap(WebViewRef, oldIn, newIn)
    /\ syncDone' = TRUE
    /\ UNCHANGED <<uiVars, oldIn, newIn, screen, phase, last, storeVars, connVars, navVars>>
    /\ SurfaceStep
    /\ UNCHANGED <<homeVars, formVars>>

NextSync == CallSync

SpecSync == InitSync /\ [][NextSync]_vars

\* positions of newIn whose id does not occur in oldIn, and the converse
AddedIdx(old, new) ==
    { i \in 1..Len(new) : \A j \in 1..Len(old) : old[j].id # new[i].id }
RemovedIdx(old, new) ==
    { j \in 1..Len(old) : \A i \in 1..Len(new) : new[i].id # old[j].id }

\* how many scripts of a sequence satisfy a test
AddsOf(scripts, payload) ==
    Cardinality({ k \in 1..Len(scripts) :
        scripts[k].type = "ADD_MARKER" /\ scripts[k].payload = payload })
RemovesOf(scripts, id) ==
    Cardinality({ k \in 1..Len(scripts) :
        scripts[k].type = "REMOVE_MARKER" /\ scripts[k].payload = [id |-> id] })
AddedIds(scripts) ==
    { scripts[k].payload.id : k \in { n \in 1..Len(scripts) : scripts[n].type = "ADD_MARKER" } }
RemovedIds(scripts) ==
    { scripts[k].payload.id : k \in { n \in 1..Len(scripts) : scripts[n].type = "REMOVE_MARKER" } }

\* C1: syncMarkersWithMap(previous, next) issues one ADD_MARKER per marker of
\* next whose id is not in previous, one REMOVE_MARKER{id} per marker of
\* previous whose id is not in next, and nothing else; swapping the arguments
\* swaps the added and the removed ids.
C1_SyncIssuesExactlyTheDiff ==
    syncDone =>
        /\ Len(issued) = Cardinality(AddedIdx(oldIn, newIn))
                          + Cardinality(RemovedIdx(oldIn, newIn))
        /\ \A k \in 1..Len(issued) : issued[k].type \in {"ADD_MARKER", "REMOVE_MARKER"}
        /\ \A i \in 1..Len(newIn) :
              AddsOf(issued, JSONStringify(newIn[i])) =
                  Cardinality({ n \in AddedIdx(oldIn, newIn) : newIn[n] = newIn[i] })
        /\ \A j \in 1..Len(oldIn) :
              RemovesOf(issued, oldIn[j].id) =
                  Cardinality({ n \in RemovedIdx(oldIn, newIn) : oldIn[n].id = oldIn[j].id })
        /\ AddedIds(issued) = IdSet(newIn) \ IdSet(oldIn)
        /\ RemovedIds(issued) = IdSet(oldIn) \ IdSet(newIn)
        /\ AddedIds(syncMarkersWithMap(WebViewRef, newIn, oldIn)) = RemovedIds(issued)
        /\ RemovedIds(syncMarkersWithMap(WebViewRef, newIn, oldIn)) = AddedIds(issued)

\* a call that adds one marker, removes another and keeps a third
C1_Witness ==
    /\ syncDone
    /\ AddedIdx(oldIn, newIn) # {}
    /\ RemovedIdx(oldIn, newIn) # {}
    /\ IdSet(oldIn) \cap IdSet(newIn) # {}
    /\ Len(issued) = 2

\* C17: reconciling a collection against itself issues nothing: the call
\* syncMarkersWithMap(A, A) injects no script, for the A of either argument.
C17_SyncAgainstItselfIsNoOp ==
    /\ (syncDone /\ oldIn = newIn) => issued = <<>>
    /\ syncDone => /\ syncMarkersWithMap(WebViewRef, oldIn, oldIn) = <<>>
                   /\ syncMarkersWithMap(WebViewRef, newIn, newIn) = <<>>

\* a collection of two markers was reconciled against itself
C17_Witness ==
    /\ syncDone
    /\ oldIn = newIn
    /\ Len(oldIn) = 2
    /\ issued = <<>>

\* C18: for an id that occurs in both collections the call issues neither
\* ADD_MARKER nor REMOVE_MARKER, whatever the other fields of its markers.
C18_SyncIgnoresFieldChanges ==
    syncDone =>
        \A id \in IdSet(oldIn) \cap IdSet(newIn) :
            /\ id \notin AddedIds(issued)
            /\ id \notin RemovedIds(issued)

\* a marker kept its id and changed its position, levels and status between
\* the two collections of a call
C18_Witness ==
    /\ syncDone
    /\ \E i \in 1..Len(oldIn), j \in 1..Len(newIn) :
          /\ oldIn[i].id = newIn[j].id
          /\ oldIn[i].lat # newIn[j].lat
          /\ oldIn[i].contaminationLevel # newIn[j].contaminationLevel
          /\ oldIn[i].status # newIn[j].status

-----------------------------------------------------------------------------
(* The message handler of the channel (wsRef.current.onmessage) *)

HandlerResult(newMarkers, scripts, what) ==
    [markers |-> newMarkers, issued |-> scripts, last |-> what]

\* MapComponent.tsx onmessage whose 'added' branch appends without the
\* exists test
MapOnMessageAlwaysAppends(webView, prev, msg) ==
    IF ParseThrows(msg) THEN HandlerResult(prev, <<>>, "ws-error-logged")
    ELSE LET data == msg.data
             marker == MapItemToMarker(data.place)
         IN  CASE data.action = "added" /\ data.hasPlace ->
                    HandlerResult(Append(prev, marker),
                        injectJavaScript(webView, <<AddMarker(marker)>>), "added")
               [] data.action = "deleted" /\ data.hasPlace ->
                    HandlerResult(RemoveById(prev, JSString(data.place.place_id)),
                        injectJavaScript(webView,
                            <<RemoveMarker(JSString(data.place.place_id))>>),
                        "deleted")
               [] data.action = "updated" /\ data.hasPlace ->
                    HandlerResult(ReplaceById(prev, marker),
                        injectJavaScript(webView, <<RemoveMarker(marker.id), AddMarker(marker)>>),
                        "updated")
               [] OTHER -> HandlerResult(prev, <<>>, "ignored")

\* MapComponent.tsx onmessage without its try/catch: the exception of
\* JSON.parse leaves the handler and the store is reset by the crash
MapOnMessageNoCatch(webView, prev, msg) ==
    IF ParseThrows(msg) THEN HandlerResult(<<>>, <<>>, "uncaught-exception")
    ELSE LET data == msg.data
             marker == MapItemToMarker(data.place)
         IN  CASE data.action = "added" /\ data.hasPlace /\ ~SomeId(prev, marker.id) ->
                    HandlerResult(Append(prev, marker),
                        injectJavaScript(webView, <<AddMarker(marker)>>), "added")
               [] data.action = "added" /\ data.hasPlace /\ SomeId(prev, marker.id) ->
                    HandlerResult(prev, <<>>, "added-exists")
               [] data.action = "deleted" /\ data.hasPlace ->
                    HandlerResult(RemoveById(prev, JSString(data.place.place_id)),
                        injectJavaScript(webView,
                            <<RemoveMarker(JSString(data.place.place_id))>>),
                        "deleted")
               [] data.action = "updated" /\ data.hasPlace ->
                    HandlerResult(ReplaceById(prev, marker),
                        injectJavaScript(webView, <<RemoveMarker(marker.id), AddMarker(marker)>>),
                        "updated")
               [] OTHER -> HandlerResult(prev, <<>>, "ignored")

\* MapComponent.tsx onmessage whose 'updated' branch injects the ADD_MARKER
\* before the REMOVE_MARKER
MapOnMessageAddThenRemove(webView, prev, msg) ==
    IF ParseThrows(msg) THEN HandlerResult(prev, <<>>, "ws-error-logged")
    ELSE LET data == msg.data
             marker == MapItemToMarker(data.place)
         IN  CASE data.action = "added" /\ data.hasPlace ->
                    IF ~SomeId(prev, marker.id)
                    THEN HandlerResult(Append(prev, marker),
                             syncMarkersWithMap(webView, prev, Append(prev, marker)),
                             "added")
                    ELSE HandlerResult(prev, <<>>, "added-exists")
               [] data.action = "deleted" /\ data.hasPlace ->
                    LET deletedMarkerId == JSString(data.place.place_id)
                        updatedMarkers == RemoveById(prev, deletedMarkerId)
                    IN  HandlerResult(updatedMarkers,
                            syncMarkersWithMap(webView, prev, updatedMarkers)
                            \o injectJavaScript(webView, <<RemoveMarker(deletedMarkerId)>>),
                            "deleted")
               [] data.action = "updated" /\ data.hasPlace ->
                    HandlerResult(ReplaceById(prev, marker),
                        injectJavaScript(webView, <<AddMarker(marker)>>)
                        \o injectJavaScript(webView, <<RemoveMarker(marker.id)>>),
                        "updated")
               [] OTHER -> HandlerResult(prev, <<>>, "ignored")

\* MapComponent.tsx onmessage; prev is the Marker Store the updaters receive
MapOnMessage(webView, prev, msg) ==
    IF ParseThrows(msg) THEN HandlerResult(prev, <<>>, "ws-error-logged")
    ELSE LET data == msg.data
             marker == MapItemToMarker(data.place)
         IN  CASE data.action = "added" /\ data.hasPlace ->
                    IF ~SomeId(prev, marker.id)
                    THEN HandlerResult(Append(prev, marker),
                             syncMarkersWithMap(webView, prev, Append(prev, marker)),
                             "added")
                    ELSE HandlerResult(prev, <<>>, "added-exists")
               [] data.action = "deleted" /\ data.hasPlace ->
                    LET deletedMarkerId == JSString(data.place.place_id)
                        updatedMarkers == RemoveById(prev, deletedMarkerId)
                    IN  HandlerResult(updatedMarkers,
                            syncMarkersWithMap(webView, prev, updatedMarkers)
                            \o injectJavaScript(webView, <<RemoveMarker(deletedMarkerId)>>),
                            "deleted")
               [] data.action = "updated" /\ data.hasPlace ->
                    HandlerResult(ReplaceById(prev, marker),
                        injectJavaScript(webView, <<RemoveMarker(marker.id)>>)
                        \o injectJavaScript(webView, <<AddMarker(marker)>>),
                        "updated")
               [] OTHER -> HandlerResult(prev, <<>>, "ignored")

\* Pins.tsx onmessage; r is the value Math.random() returns
PinsOnMessage(webView, prev, msg, r) ==
    IF ParseThrows(msg) THEN HandlerResult(prev, <<>>, "ws-error-logged")
    ELSE LET data == msg.data
             marker == PinsPlaceToMarker(data.place, r)
         IN  CASE data.action = "added" /\ data.hasPlace ->
                    IF ~SomeId(prev, marker.id)
                    THEN HandlerResult(Append(prev, marker),
                             syncMarkersWithMap(webView, prev, Append(prev, marker)),
                             "added")
                    ELSE HandlerResult(prev, <<>>, "added-exists")
               [] data.action = "deleted" /\ Truthy(data.id) ->
                    HandlerResult(RemoveById(prev, data.id),
                        injectJavaScript(webView, <<RemoveMarker(data.id)>>),
                        "deleted")
               [] OTHER -> HandlerResult(prev, <<>>, "ignored")

-----------------------------------------------------------------------------
(* The bulk fetch (fetchMarkers) *)

\* MapComponent.tsx fetchMarkers after its awaits: reconciles against []
MapFetchMarkers(webView, data) ==
    LET newMarkers == MapAPIToMarkers(data)
    IN  HandlerResult(newMarkers, syncMarkersWithMap(webView, <<>>, newMarkers), "fetched")

\* Pins.tsx fetchMarkers after its awaits: reconciles against the markers
\* its closure captured when the effect ran
PinsFetchMarkers(webView, captured, data, rs) ==
    LET newMarkers == PinsAPIToMarkers(data, rs)
    IN  HandlerResult(newMarkers, syncMarkersWithMap(webView, captured, newMarkers), "fetched")

-----------------------------------------------------------------------------
(* The connection of the channel *)

AppStates == {"active", "inactive", "background"}

\* nextAppState.match(/inactive|background/)
MatchesInactiveOrBackground(st) == st \in {"inactive", "background"}

Conn(ref, socks) == [wsRef |-> ref, sockets |-> socks]

\* the number new WebSocket(...) gives the next socket
NewSocket(socks) == CHOOSE s \in SocketIds :
    socks[s] = "none" /\ \A t \in SocketIds : socks[t] = "none" => s <= t

CanCreateSocket(socks) == \E s \in SocketIds : socks[s] = "none"

\* connectWebSocket()
connectWebSocket(ref, socks) ==
    IF ref # 0 THEN Conn(ref, socks)
    ELSE Conn(NewSocket(socks), [socks EXCEPT ![NewSocket(socks)] = "open"])

\* disconnectWebSocket(): close() moves an open socket to CLOSING; its
\* onclose runs later
disconnectWebSocket(ref, socks) ==
    IF ref # 0
    THEN Conn(0, [socks EXCEPT ![ref] = IF @ = "open" THEN "closing" ELSE @])
    ELSE Conn(ref, socks)

\* MapComponent.tsx handleAppStateChange(nextAppState), without the final
\* assignment to appState.current
handleAppStateChange(cur, nextAppState, ref, socks) ==
    IF MatchesInactiveOrBackground(cur) /\ nextAppState = "active"
    THEN connectWebSocket(ref, socks)
    ELSE IF cur = "active" /\ MatchesInactiveOrBackground(nextAppState)
         THEN disconnectWebSocket(ref, socks)
         ELSE Conn(ref, socks)

\* the connect effect of a mount: MapComponent connects when
\* appState.current is 'active', Pins connects always
MountConnect(scr, cur, ref, socks) ==
    IF scr = "Pins" \/ cur = "active" THEN connectWebSocket(ref, socks)
    ELSE Conn(ref, socks)

-----------------------------------------------------------------------------
(* Actions of one mounted instance of a screen *)

\* the effects of the first commit, in source order: location request
\* (MapComponent), AppState listener, connect, first fetchMarkers
Mount ==
    /\ phase = "init"
    /\ CanCreateSocket(sockets)
    /\ phase' = "mounted"
    /\ appStateCur' = osAppState
    /\ LET c == MountConnect(screen, osAppState, wsRef, sockets)
       IN  wsRef' = c.wsRef /\ sockets' = c.sockets
    /\ inflight' = <<markers>>
    /\ locating' = (screen = "MapComponent")
    /\ issued' = <<>>
    /\ last' = "mounted"
    /\ UNCHANGED <<uiVars, screen, markers, osAppState, syncVars, userLocation, isNavigating,
                   navigationSubscription, subs, pendingNav, navDest>>
    /\ SurfaceStep
    /\ UNCHANGED <<homeVars, formVars>>

\* the effect cleanups: listener removed, disconnectWebSocket, clearInterval
Unmount ==
    /\ phase = "mounted"
    /\ phase' = "unmounted"
    /\ LET c == disconnectWebSocket(wsRef, sockets)
       IN  wsRef' = c.wsRef /\ sockets' = c.sockets
    /\ issued' = <<>>
    /\ last' = "unmounted"
    /\ UNCHANGED <<uiVars, screen, storeVars, osAppState, appStateCur, syncVars, navVars>>
    /\ SurfaceStep
    /\ UNCHANGED <<homeVars, formVars>>

\* the OS changes the application state; MapComponent's listener runs
\* handleAppStateChange while the component is mounted
AppStateChange(nextAppState) ==
    /\ nextAppState # osAppState
    /\ osAppState' = nextAppState
    /\ IF screen = "MapComponent" /\ phase = "mounted"
       THEN /\ (wsRef = 0 /\ MatchesInactiveOrBackground(appStateCur)
                          /\ nextAppState = "active") => CanCreateSocket(sockets)
            /\ LET c == handleAppStateChange(appStateCur, nextAppState, wsRef, sockets)
               IN  wsRef' = c.wsRef /\ sockets' = c.sockets
            /\ appStateCur' = nextAppState
       ELSE UNCHANGED <<wsRef, sockets, appStateCur>>
    /\ issued' = <<>>
    /\ last' = "app-state"
    /\ UNCHANGED <<uiVars, screen, phase, storeVars, syncVars, navVars>>
    /\ SurfaceStep
    /\ UNCHANGED <<homeVars, formVars>>

\* onclose of socket s: after close(), or when the server or the network
\* drops an open connection
SocketClosed(s) ==
    /\ sockets[s] \in {"open", "closing"}
    /\ sockets' = [sockets EXCEPT ![s] = "closed"]
    /\ wsRef' = 0
    /\ issued' = <<>>
    /\ last' = "ws-closed"
    /\ UNCHANGED <<uiVars, screen, phase, storeVars, osAppState, appStateCur, syncVars, navVars>>
    /\ SurfaceStep
    /\ UNCHANGED <<homeVars, formVars>>

\* the array a setMarkers call of Pins leaves in the state is a new one:
\* the fetch effect (deps [markers]) runs again and starts a fetch at once
PinsRefetch(list, newMarkers) == Append(list, newMarkers)

\* socket s delivers msg to onmessage
OnMessage(s, msg, r) ==
    /\ phase = "mounted"
    /\ sockets[s] \in {"open", "closing"}
    /\ r = "0.1" \/ (screen = "Pins" /\ msg.data.action = "added" /\ msg.data.hasPlace
                      /\ ~Truthy(msg.data.place.place_id))
    /\ LET res == IF screen = "MapComponent"
                  THEN MapOnMessage(WebViewRef, markers, msg)
                  ELSE PinsOnMessage(WebViewRef, markers, msg, r)
       IN  /\ res.last = "added" => Len(markers) < MaxStore
           /\ markers' = res.markers
           /\ issued' = res.issued
           /\ last' = res.last
           /\ IF screen = "Pins" /\ res.last \in {"added", "deleted"}
              THEN /\ Len(inflight) < MaxInflight
                   /\ inflight' = PinsRefetch(inflight, res.markers)
              ELSE UNCHANGED inflight
    /\ UNCHANGED <<uiVars, screen, phase, connVars, syncVars, navVars>>
    /\ SurfaceStep
    /\ UNCHANGED <<homeVars, formVars>>

\* the i-th pending fetch resolves with body data; after an unmount
\* setMarkers is dropped and webViewRef.current is null
FetchDone(i, data, rs) ==
    /\ i \in 1..Len(inflight)
    /\ \A n \in 1..Len(data) :
          rs[n] = "0.1" \/ (screen = "Pins" /\ ~Truthy(data[n].id))
    /\ LET res == IF screen = "MapComponent"
                  THEN MapFetchMarkers(WebViewRef, data)
                  ELSE PinsFetchMarkers(WebViewRef, inflight[i], data, rs)
       IN  /\ issued' = res.issued
           /\ last' = res.last
           /\ markers' = IF phase = "mounted" THEN res.markers ELSE markers
           /\ inflight' = IF screen = "Pins" /\ phase = "mounted"
                          THEN PinsRefetch(RemoveAt(inflight, i), res.markers)
                          ELSE RemoveAt(inflight, i)
    /\ UNCHANGED <<uiVars, screen, phase, connVars, syncVars, navVars>>
    /\ SurfaceStep
    /\ UNCHANGED <<homeVars, formVars>>

\* the i-th pending fetch rejects or its body is not JSON: the catch logs
FetchFail(i) ==
    /\ i \in 1..Len(inflight)
    /\ inflight' = RemoveAt(inflight, i)
    /\ issued' = <<>>
    /\ last' = "fetch-error-logged"
    /\ UNCHANGED <<uiVars, screen, phase, markers, connVars, syncVars, navVars>>
    /\ SurfaceStep
    /\ UNCHANGED <<homeVars, formVars>>

\* Pins.tsx setInterval(fetchMarkers, 5000) fires
IntervalTick ==
    /\ screen = "Pins"
    /\ phase = "mounted"
    /\ Len(inflight) < MaxInflight
    /\ inflight' = Append(inflight, markers)
    /\ issued' = <<>>
    /\ last' = "interval"
    /\ UNCHANGED <<uiVars, screen, phase, markers, connVars, syncVars, navVars>>
    /\ SurfaceStep
    /\ UNCHANGED <<homeVars, formVars>>

\* the document of the WebView has loaded mapbox-gl and run its script: const
\* markersMap = {} and the 'message' listener exist from now on
DocumentLoaded ==
    /\ phase = "mounted"
    /\ ~documentLoaded
    /\ documentLoaded' = TRUE
    /\ markersMap' = {}
    /\ UNCHANGED <<uiVars, screen, phase, issued, last, storeVars, connVars, syncVars, navVars>>
    /\ UNCHANGED <<homeVars, formVars>>

\* Math.random() for every item of a response
RandomsFor(data) == [1..Len(data) -> Randoms]

InitScreen ==
    /\ screen \in {"MapComponent", "Pins"}
    /\ phase = "init"
    /\ issued = <<>>
    /\ last = "none"
    /\ InitStore /\ InitConn /\ InitNav /\ InitSyncIdle /\ InitUi /\ InitSurface /\ InitHosted

NextStore ==
    \/ Mount
    \/ Unmount
    \/ \E s \in SocketIds, msg \in Messages, r \in Randoms : OnMessage(s, msg, r)
    \/ \E i \in 1..MaxInflight, data \in Responses :
          \E rs \in RandomsFor(data) : FetchDone(i, data, rs)
    \/ \E i \in 1..MaxInflight : FetchFail(i)
    \/ IntervalTick

\* the Marker Store under bulk fetches and push events
Spec == InitScreen /\ [][NextStore]_vars

NextPush ==
    \/ Mount
    \/ Unmount
    \/ \E s \in SocketIds, msg \in Messages, r \in Randoms : OnMessage(s, msg, r)
    \/ \E i \in 1..MaxInflight : FetchFail(i)

\* the Marker Store under push events alone, every bulk fetch failing
SpecPush == InitScreen /\ [][NextPush]_vars

NextConn ==
    \/ Mount
    \/ Unmount
    \/ \E st \in AppStates : AppStateChange(st)
    \/ \E s \in SocketIds : SocketClosed(s)

\* the connection under mount, unmount, app-state changes and onclose
SpecConn == InitScreen /\ [][NextConn]_vars

-----------------------------------------------------------------------------
(* Claims about the Marker Store *)

AddedMsg(p) == [kind |-> "object", data |-> Envelope("added", TRUE, p, Undefined)]
UpdatedMsg(p) == [kind |-> "object", data |-> Envelope("updated", TRUE, p, Undefined)]
DeletedMsg(p) == [kind |-> "object", data |-> Envelope("deleted", TRUE, p, Undefined)]
NotJsonMsg == [kind |-> "not-json", data |-> Envelope(Undefined, FALSE, NoPlace, Undefined)]

\* some socket delivers msg in this step
Delivers(msg) == \E s \in SocketIds, r \in Randoms : OnMessage(s, msg, r)

\* the marker a place record stands for, under the id nid
MarkerOf(p, nid) ==
    [id |-> nid, lat |-> p.latitude, lng |-> p.longitude,
     contaminationLevel |-> p.pollution_level, plasticLevel |-> p.plastic_level,
     status |-> p.status]

CountId(list, id) == Cardinality({ i \in 1..Len(list) : list[i].id = id })

\* C2: of two consecutive successful bulk fetches with nothing in between,
\* the handler of the second issues ADD_MARKER for exactly the markers of F2
\* whose id is not in F1 (the store the first left) and REMOVE_MARKER for
\* exactly the ids of F1 that are not in F2.
C2_SecondFetchReportsDiff ==
    [][(phase = "mounted" /\ last = "fetched" /\ last' = "fetched") =>
          /\ AddedIds(issued') = IdSet(markers') \ IdSet(markers)
          /\ RemovedIds(issued') = IdSet(markers) \ IdSet(markers')
          /\ Len(issued') = Cardinality(AddedIdx(markers, markers'))
                             + Cardinality(RemovedIdx(markers, markers'))]_vars

\* C3: an 'updated' event for the id of a stored marker leaves exactly one
\* marker with that id, carrying the fields of the event, and every other
\* marker as it was.
C3_UpdatedReplacesInPlace ==
    [][\A p \in RawPlaces :
          (CountId(markers, JSString(p.place_id)) = 1 /\ Delivers(UpdatedMsg(p))) =>
              /\ Len(markers') = Len(markers)
              /\ \A i \in 1..Len(markers) :
                    markers'[i] = IF markers[i].id = JSString(p.place_id)
                                  THEN MarkerOf(p, JSString(p.place_id))
                                  ELSE markers[i]]_vars

\* some socket delivers msg in this step, Math.random() returning r
DeliversWith(msg, r) == \E s \in SocketIds : OnMessage(s, msg, r)

\* the id the handler of a screen gives the place of an 'added' event
NormalizedId(p, r) ==
    IF screen = "MapComponent" THEN JSString(p.place_id)
    ELSE IF Truthy(p.place_id) THEN p.place_id
         ELSE TemplateId(p.latitude, p.longitude, r)

\* C4: an 'added' event whose normalized id is not in the store appends that
\* one marker and issues one ADD_MARKER for it and no REMOVE_MARKER; one whose
\* id is in the store changes nothing and issues nothing.
C4_AddedIsSingletonAdd ==
    [][\A p \in RawPlaces, r \in Randoms :
          DeliversWith(AddedMsg(p), r) =>
              LET nid == NormalizedId(p, r)
              IN  IF ~SomeId(markers, nid)
                  THEN /\ markers' = Append(markers, MarkerOf(p, nid))
                       /\ Len(issued') = 1
                       /\ issued'[1].type = "ADD_MARKER"
                       /\ issued'[1].payload = JSONStringify(MarkerOf(p, nid))
                  ELSE /\ markers' = markers
                       /\ issued' = <<>>]_vars

\* an 'added' event has extended a store that held one marker
C4_Witness ==
    /\ last = "added"
    /\ Len(markers) = 2
    /\ Len(issued) = 1

\* C5: a {action: 'deleted', place: {place_id: x}} envelope removes the
\* marker with id x, keeps every other marker and issues REMOVE_MARKER{id: x}.
C5_DeletedRemovesById ==
    [][\A p \in RawPlaces :
          (Truthy(p.place_id) /\ SomeId(markers, p.place_id) /\ Delivers(DeletedMsg(p))) =>
              /\ markers' = RemoveById(markers, p.place_id)
              /\ \E k \in 1..Len(issued') : issued'[k] = RemoveMarker(p.place_id)]_vars

\* C6: a message that is not JSON is caught and logged: the store, the
\* socket and wsRef stay as they are, nothing is injected, and the handler
\* processes the event that follows.
C6_NotJsonIsCaught ==
    [][/\ Delivers(NotJsonMsg) =>
            /\ last' = "ws-error-logged"
            /\ markers' = markers
            /\ issued' = <<>>
            /\ wsRef' = wsRef /\ sockets' = sockets /\ phase' = phase
       /\ \A p \in RawPlaces :
            (last = "ws-error-logged" /\ Delivers(UpdatedMsg(p))
               /\ screen = "MapComponent") =>
                markers' = ReplaceById(markers, MarkerOf(p, JSString(p.place_id)))
       /\ \A p \in RawPlaces :
            (last = "ws-error-logged" /\ Delivers(AddedMsg(p))) =>
                last' \in {"added", "added-exists"}]_vars

\* a message that is not JSON has reached a store that holds markers, over
\* the socket wsRef still refers to
C6_Witness ==
    /\ last = "ws-error-logged"
    /\ markers # <<>>
    /\ wsRef # 0
    /\ sockets[wsRef] = "open"

-----------------------------------------------------------------------------
(* Claims about the connection *)

OpenSockets == { s \in SocketIds : sockets[s] = "open" }

\* C7: at most one socket created by a screen is open (created, close() not
\* called, not closed) at a time.
C7_AtMostOneOpenSocket == Cardinality(OpenSockets) <= 1

\* C8: the connection follows the foreground state: a mount with the app
\* active and a return to active leave a socket open; while the screen is
\* mounted with the app inactive or in background, and after the unmount,
\* no socket is open and wsRef is cleared.
C8_ConnectionFollowsForeground ==
    /\ (phase = "mounted" /\ last \in {"mounted", "app-state"} /\ osAppState = "active")
          => (wsRef # 0 /\ OpenSockets # {})
    /\ (phase = "mounted" /\ MatchesInactiveOrBackground(osAppState))
          => (wsRef = 0 /\ OpenSockets = {})
    /\ phase = "unmounted" => (wsRef = 0 /\ OpenSockets = {})

-----------------------------------------------------------------------------
(* The navigation tracker of MapComponent *)

Positions == { [lat |-> 0, lng |-> 0], [lat |-> 1, lng |-> 0] }

\* showRoute(origin, destination): the script it injects
showRoute(webView, origin, destination) ==
    injectJavaScript(webView,
        << [type |-> "SHOW_ROUTE",
            payload |-> [origin |-> [lng |-> origin.lng, lat |-> origin.lat],
                         destination |-> [lng |-> destination.lng,
                                          lat |-> destination.lat]]] >>)

\* the number the next position subscription gets
NewSub(ss) == CHOOSE k \in SubIds :
    ss[k].state = "none" /\ \A j \in SubIds : ss[j].state = "none" => k <= j

\* the mount effect obtained the permission and the first position
LocationResolved(pos) ==
    /\ locating
    /\ locating' = FALSE
    /\ userLocation' = IF phase = "mounted" THEN pos ELSE userLocation
    /\ issued' = <<>>
    /\ last' = "located"
    /\ UNCHANGED <<uiVars, screen, phase, storeVars, connVars, syncVars, isNavigating,
                   navigationSubscription, subs, pendingNav, navDest>>
    /\ SurfaceStep
    /\ UNCHANGED <<homeVars, formVars>>

\* the permission was denied (alert) or getCurrentPositionAsync threw (log)
LocationFailed ==
    /\ locating
    /\ locating' = FALSE
    /\ issued' = <<>>
    /\ last' = "location-unavailable"
    /\ UNCHANGED <<uiVars, screen, phase, storeVars, connVars, syncVars, userLocation,
                   isNavigating, navigationSubscription, subs, pendingNav, navDest>>
    /\ SurfaceStep
    /\ UNCHANGED <<homeVars, formVars>>

\* startNavigation without its userLocation test
StartNavigationUnchecked(dest) ==
    /\ phase = "mounted"
    /\ Len(pendingNav) < MaxPendingNav
    /\ issued' = showRoute(WebViewRef, userLocation, dest)
    /\ isNavigating' = TRUE
    /\ pendingNav' = Append(pendingNav, dest)
    /\ navDest' = dest
    /\ last' = "navigation-started"
    /\ UNCHANGED <<uiVars, screen, phase, storeVars, connVars, syncVars, userLocation,
                   navigationSubscription, subs, locating>>
    /\ SurfaceStep
    /\ UNCHANGED <<homeVars, formVars>>

\* startNavigation that subscribes before it shows the route
StartNavigationRouteLater(dest) ==
    /\ phase = "mounted"
    /\ IF userLocation = NoLocation
       THEN /\ issued' = <<>>
            /\ last' = "alert-unknown-location"
            /\ UNCHANGED <<isNavigating, pendingNav, navDest>>
       ELSE /\ Len(pendingNav) < MaxPendingNav
            /\ issued' = <<>>
            /\ isNavigating' = TRUE
            /\ pendingNav' = Append(pendingNav, dest)
            /\ navDest' = dest
            /\ last' = "navigation-started"
    /\ UNCHANGED <<uiVars, screen, phase, storeVars, connVars, syncVars, userLocation,
                   navigationSubscription, subs, locating>>
    /\ SurfaceStep
    /\ UNCHANGED <<homeVars, formVars>>

\* startNavigation(destLat, destLng) up to its await
StartNavigation(dest) ==
    /\ phase = "mounted"
    /\ IF userLocation = NoLocation
       THEN /\ issued' = <<>>
            /\ last' = "alert-unknown-location"
            /\ UNCHANGED <<isNavigating, pendingNav, navDest>>
       ELSE /\ Len(pendingNav) < MaxPendingNav
            /\ issued' = showRoute(WebViewRef, userLocation, dest)
            /\ isNavigating' = TRUE
            /\ pendingNav' = Append(pendingNav, dest)
            /\ navDest' = dest
            /\ last' = "navigation-started"
    /\ UNCHANGED <<uiVars, screen, phase, storeVars, connVars, syncVars, userLocation,
                   navigationSubscription, subs, locating>>
    /\ SurfaceStep
    /\ UNCHANGED <<homeVars, formVars>>

\* watchPositionAsync of the i-th pending call resolves: the subscription
\* exists and startNavigation stores it
WatchResolved(i) ==
    /\ i \in 1..Len(pendingNav)
    /\ \E k \in SubIds : subs[k].state = "none"
    /\ subs' = [subs EXCEPT ![NewSub(subs)] = [state |-> "active", dest |-> pendingNav[i]]]
    /\ navigationSubscription' = NewSub(subs)
    /\ pendingNav' = RemoveAt(pendingNav, i)
    /\ issued' = <<>>
    /\ last' = "watching"
    /\ UNCHANGED <<uiVars, screen, phase, storeVars, connVars, syncVars, userLocation,
                   isNavigating, navDest, locating>>
    /\ SurfaceStep
    /\ UNCHANGED <<homeVars, formVars>>

\* watchPositionAsync of the i-th pending call rejects: nothing catches it
WatchRejected(i) ==
    /\ i \in 1..Len(pendingNav)
    /\ pendingNav' = RemoveAt(pendingNav, i)
    /\ issued' = <<>>
    /\ last' = "unhandled-rejection"
    /\ UNCHANGED <<uiVars, screen, phase, storeVars, connVars, syncVars, userLocation,
                   isNavigating, navigationSubscription, subs, navDest, locating>>
    /\ SurfaceStep
    /\ UNCHANGED <<homeVars, formVars>>

\* subscription k delivers a position to the callback of its call
PositionUpdate(k, pos) ==
    /\ subs[k].state = "active"
    /\ userLocation' = IF phase = "mounted" THEN pos ELSE userLocation
    /\ issued' = showRoute(WebViewRef, pos, subs[k].dest)
    /\ last' = "position"
    /\ UNCHANGED <<uiVars, screen, phase, storeVars, connVars, syncVars, isNavigating,
                   navigationSubscription, subs, pendingNav, navDest, locating>>
    /\ SurfaceStep
    /\ UNCHANGED <<homeVars, formVars>>

\* stopNavigation()
StopNavigation ==
    /\ phase = "mounted"
    /\ IF navigationSubscription # 0
       THEN /\ subs' = [subs EXCEPT ![navigationSubscription].state = "removed"]
            /\ navigationSubscription' = 0
       ELSE UNCHANGED <<subs, navigationSubscription>>
    /\ isNavigating' = FALSE
    /\ issued' = <<>>
    /\ last' = "navigation-stopped"
    /\ UNCHANGED <<uiVars, screen, phase, storeVars, connVars, syncVars, userLocation,
                   pendingNav, navDest, locating>>
    /\ SurfaceStep
    /\ UNCHANGED <<homeVars, formVars>>

InitNavScreen ==
    /\ screen = "MapComponent"
    /\ phase = "init"
    /\ issued = <<>>
    /\ last = "none"
    /\ InitStore /\ InitConn /\ InitNav /\ InitSyncIdle /\ InitUi /\ InitSurface /\ InitHosted

NextNav ==
    \/ Mount
    \/ Unmount
    \/ \E pos \in Positions : LocationResolved(pos)
    \/ LocationFailed
    \/ \E dest \in Positions : StartNavigation(dest)
    \/ \E i \in 1..MaxPendingNav : WatchResolved(i)
    \/ \E i \in 1..MaxPendingNav : WatchRejected(i)
    \/ \E k \in SubIds, pos \in Positions : PositionUpdate(k, pos)
    \/ StopNavigation

\* the navigation tracker under starts, stops and position updates
SpecNav == InitNavScreen /\ [][NextNav]_vars

ActiveSubs == { k \in SubIds : subs[k].state = "active" }

\* C9: with a known position and the tracker Idle, startNavigation(dest)
\* issues one SHOW_ROUTE from the current position to dest while no
\* subscription has been created yet and sets isNavigating; when the
\* subscribe completes, navigationSubscription holds the one subscription
\* it created, which is active.
C9_StartShowsRouteThenSubscribes ==
    [][/\ \A dest \in Positions :
            (StartNavigation(dest) /\ userLocation # NoLocation /\ ~isNavigating) =>
                /\ issued' = << [type |-> "SHOW_ROUTE",
                                 payload |-> [origin |-> [lng |-> userLocation.lng,
                                                          lat |-> userLocation.lat],
                                              destination |-> [lng |-> dest.lng,
                                                               lat |-> dest.lat]]] >>
                /\ isNavigating'
                /\ subs' = subs
                /\ navigationSubscription' = navigationSubscription
                /\ pendingNav' = Append(pendingNav, dest)
       /\ \A i \in 1..MaxPendingNav :
            WatchResolved(i) =>
                /\ navigationSubscription' # 0
                /\ subs[navigationSubscription'].state = "none"
                /\ subs'[navigationSubscription'] =
                       [state |-> "active", dest |-> pendingNav[i]]
                /\ ActiveSubs' = ActiveSubs \cup {navigationSubscription'}
                /\ issued' = <<>>]_vars

\* a start from Idle has completed its subscribe: Navigating, one active
\* subscription, held by navigationSubscription
C9_Witness ==
    /\ last = "watching"
    /\ isNavigating
    /\ ActiveSubs = {navigationSubscription}
    /\ pendingNav = <<>>

\* C10: startNavigation with userLocation null reports an error and changes
\* nothing: the tracker stays Idle, nothing is injected, no subscription is
\* created and navigationSubscription is as before.
C10_StartWithoutPositionIsRefused ==
    [][\A dest \in Positions :
          (StartNavigation(dest) /\ userLocation = NoLocation) =>
              /\ last' = "alert-unknown-location"
              /\ ~isNavigating /\ ~isNavigating'
              /\ issued' = <<>>
              /\ subs' = subs
              /\ pendingNav' = pendingNav
              /\ navigationSubscription' = navigationSubscription
              /\ userLocation' = userLocation]_vars

\* startNavigation was refused for want of a position
C10_Witness ==
    /\ last = "alert-unknown-location"
    /\ userLocation = NoLocation
    /\ ~locating

\* C11: while the tracker is Navigating, a position update delivered by a
\* subscription issues exactly one SHOW_ROUTE from the new position to the
\* destination of the most recent startNavigation, and the current position
\* becomes the new position.
C11_UpdateRoutesToCurrentDestination ==
    [][\A k \in SubIds, pos \in Positions :
          (phase = "mounted" /\ isNavigating /\ PositionUpdate(k, pos)) =>
              /\ issued' = << [type |-> "SHOW_ROUTE",
                               payload |-> [origin |-> [lng |-> pos.lng, lat |-> pos.lat],
                                            destination |-> [lng |-> navDest.lng,
                                                             lat |-> navDest.lat]]] >>
              /\ userLocation' = pos]_vars

\* C12: once stopNavigation has run and no startNavigation call is pending,
\* the tracker is Idle with no active subscription and navigationSubscription
\* null, and no step issues a SHOW_ROUTE until the next startNavigation.
C12_StopReleasesSubscription ==
    [][(phase' = "mounted" /\ ~isNavigating' /\ pendingNav' = <<>>) =>
          /\ ActiveSubs' = {}
          /\ navigationSubscription' = 0
          /\ \A n \in 1..Len(issued') : issued'[n].type # "SHOW_ROUTE"]_vars

\* C13: stopNavigation called while the tracker is Idle leaves it Idle,
\* injects nothing, removes no subscription, raises no error and leaves the
\* Marker Store and the current position as they were.
C13_StopWhileIdleIsNoOp ==
    [][(StopNavigation /\ ~isNavigating) =>
          /\ ~isNavigating'
          /\ issued' = <<>>
          /\ subs' = subs
          /\ last' = "navigation-stopped"
          /\ markers' = markers
          /\ userLocation' = userLocation]_vars

-----------------------------------------------------------------------------
(* The distance calculator and the nearest-marker search of MapComponent *)

\* numbers are fixed-point with four decimals
Scale == 10000
Mul(x, y) == (x * y) \div Scale

\* Math.PI
MathPI == 31416

\* const R = 6371, in km
R == 6371

\* latitudes and longitudes, in degrees, of the positions searched
GeoPositions == { [lat |-> la, lng |-> lo] : la \in {-60, 0, 60}, lo \in {0, 60} }

\* toRad(value) = (value * Math.PI) / 180
toRad(value) == (value * MathPI) \div 180

\* Math.sin, Math.cos for the angles the positions give
MathSin(x) ==
    CASE x = 0 -> 0
      [] x = 5236 -> 5000
      [] x = -5236 -> -5000
      [] x = 10472 -> 8660
      [] x = -10472 -> -8660

MathCos(x) ==
    CASE x = 0 -> Scale
      [] x = 10472 -> 5000
      [] x = -10472 -> 5000

\* the largest q in lo..hi with q * q <= n, by bisection
RECURSIVE SqrtBetween(_, _, _)
SqrtBetween(n, lo, hi) ==
    IF lo = hi THEN lo
    ELSE LET mid == (lo + hi + 1) \div 2
         IN  IF mid * mid <= n THEN SqrtBetween(n, mid, hi)
             ELSE SqrtBetween(n, lo, mid - 1)

\* Math.sqrt of a number between 0 and 1
MathSqrt(x) == SqrtBetween(x * Scale, 0, Scale)

\* Math.atan2(y, x), tabulated at the arguments that occur
MathAtan2(y, x) ==
    CASE y = 0 /\ x = 10000 -> 0
      [] y = 2500 /\ x = 9682 -> 2527
      [] y = 5000 /\ x = 8660 -> 5236
      [] y = 5590 /\ x = 8291 -> 5932
      [] y = 6123 /\ x = 7905 -> 6590
      [] y = 7071 /\ x = 7071 -> 7854
      [] y = 8659 /\ x = 5000 -> 10471
      [] y = 9013 /\ x = 4331 -> 11228

\* getDistance with cos(lat1) taken twice
GetDistanceCosLat1Twice(lat1, lng1, lat2, lng2) ==
    LET dLat == toRad(lat2 - lat1)
        dLon == toRad(lng2 - lng1)
        a == Mul(MathSin(dLat \div 2), MathSin(dLat \div 2))
             + Mul(Mul(Mul(MathCos(toRad(lat1)), MathCos(toRad(lat1))),
                       MathSin(dLon \div 2)), MathSin(dLon \div 2))
        c == 2 * MathAtan2(MathSqrt(a), MathSqrt(Scale - a))
    IN  Mul(R, c)

\* getDistance(lat1, lng1, lat2, lng2), in km
getDistance(lat1, lng1, lat2, lng2) ==
    LET dLat == toRad(lat2 - lat1)
        dLon == toRad(lng2 - lng1)
        a == Mul(MathSin(dLat \div 2), MathSin(dLat \div 2))
             + Mul(Mul(Mul(MathCos(toRad(lat1)), MathCos(toRad(lat2))),
                       MathSin(dLon \div 2)), MathSin(dLon \div 2))
        c == 2 * MathAtan2(MathSqrt(a), MathSqrt(Scale - a))
    IN  Mul(R, c)

\* the forEach loop of handleFindNearest from element n on: the index of
\* nearest, best being the index found so far
RECURSIVE NearestFrom(_, _, _, _)
NearestFrom(loc, list, n, best) ==
    IF n > Len(list) THEN best
    ELSE NearestFrom(loc, list, n + 1,
             IF getDistance(loc.lat, loc.lng, list[n].lat, list[n].lng)
                  < getDistance(loc.lat, loc.lng, list[best].lat, list[best].lng)
             THEN n ELSE best)

\* the loop with <= in place of <
RECURSIVE NearestFromLast(_, _, _, _)
NearestFromLast(loc, list, n, best) ==
    IF n > Len(list) THEN best
    ELSE NearestFromLast(loc, list, n + 1,
             IF getDistance(loc.lat, loc.lng, list[n].lat, list[n].lng)
                  <= getDistance(loc.lat, loc.lng, list[best].lat, list[best].lng)
             THEN n ELSE best)

\* an alert and an early return of handleFindNearest
FindNearestRefused(what) ==
    /\ issued' = <<>>
    /\ last' = what
    /\ UNCHANGED <<uiVars, screen, phase, storeVars, connVars, syncVars, navVars>>
    /\ SurfaceStep
    /\ UNCHANGED <<homeVars, formVars>>

\* handleFindNearest keeping the last of the nearest markers
HandleFindNearestLastMinimal ==
    /\ phase = "mounted"
    /\ IF userLocation = NoLocation THEN FindNearestRefused("alert-unknown-position")
       ELSE IF Len(markers) = 0 THEN FindNearestRefused("alert-no-markers")
       ELSE LET nearest == markers[NearestFromLast(userLocation, markers, 1, 1)]
            IN  StartNavigation([lat |-> nearest.lat, lng |-> nearest.lng])

\* handleFindNearest without the test of markers.length: markers[0] is
\* undefined and reading its lat throws
HandleFindNearestNoEmptyTest ==
    /\ phase = "mounted"
    /\ IF userLocation = NoLocation THEN FindNearestRefused("alert-unknown-position")
       ELSE IF Len(markers) = 0 THEN FindNearestRefused("uncaught-exception")
       ELSE LET nearest == markers[NearestFrom(userLocation, markers, 1, 1)]
            IN  StartNavigation([lat |-> nearest.lat, lng |-> nearest.lng])

\* handleFindNearest(), with the synchronous part of the startNavigation
\* call it ends with
HandleFindNearest ==
    /\ phase = "mounted"
    /\ IF userLocation = NoLocation THEN FindNearestRefused("alert-unknown-position")
       ELSE IF Len(markers) = 0 THEN FindNearestRefused("alert-no-markers")
       ELSE LET nearest == markers[NearestFrom(userLocation, markers, 1, 1)]
            IN  StartNavigation([lat |-> nearest.lat, lng |-> nearest.lng])

GeoIds == <<"a", "b", "c", "d">>

\* Marker Stores a bulk fetch leaves: markers at the positions searched
GeoStores ==
    { [i \in 1..Len(ps) |-> MarkerData(GeoIds[i], ps[i].lat, ps[i].lng,
                                       "Bajo", "Bajo", "Pendiente")]
        : ps \in SeqsUpTo(GeoPositions, MaxGeoMarkers) }

\* the mounted screen once the first position and the markers have arrived
\* or failed to
InitNearest ==
    /\ screen = "MapComponent"
    /\ phase = "mounted"
    /\ issued = <<>>
    /\ last = "none"
    /\ markers \in GeoStores
    /\ inflight = <<>>
    /\ InitConn /\ InitSyncIdle /\ InitUi
    /\ markersMap = { JSONStringify(markers[i]) : i \in 1..Len(markers) }
    /\ documentLoaded = TRUE
    /\ InitHosted
    /\ userLocation \in GeoPositions \cup {NoLocation}
    /\ isNavigating = FALSE
    /\ navigationSubscription = 0
    /\ subs = [k \in SubIds |-> [state |-> "none", dest |-> NoLocation]]
    /\ pendingNav = <<>>
    /\ navDest = NoLocation
    /\ locating = FALSE

NextNearest ==
    \/ HandleFindNearest
    \/ \E i \in 1..MaxPendingNav : WatchResolved(i)

\* the nearest-marker search over stores of markers at the positions searched
SpecNearest == InitNearest /\ [][NextNearest]_vars

\* distance from the current position to the n-th marker of the store
DistTo(n) == getDistance(userLocation.lat, userLocation.lng, markers[n].lat, markers[n].lng)

\* C14: with a known position and a non-empty store, handleFindNearest calls
\* startNavigation once, with the position of the first marker of the store
\* whose distance to the current position is minimal over the store.
C14_FindNearestNavigatesToFirstMinimal ==
    [][(HandleFindNearest /\ userLocation # NoLocation /\ markers # <<>>) =>
          \E i \in 1..Len(markers) :
              /\ \A j \in 1..Len(markers) : DistTo(i) <= DistTo(j)
              /\ \A j \in 1..(i - 1) : DistTo(j) > DistTo(i)
              /\ pendingNav' = Append(pendingNav,
                                      [lat |-> markers[i].lat, lng |-> markers[i].lng])
              /\ issued' = << [type |-> "SHOW_ROUTE",
                               payload |-> [origin |-> [lng |-> userLocation.lng,
                                                        lat |-> userLocation.lat],
                                            destination |-> [lng |-> markers[i].lng,
                                                             lat |-> markers[i].lat]]] >>
              /\ isNavigating']_vars

\* handleFindNearest has started a navigation to the first of two markers at
\* different positions and the same distance
C14_Witness ==
    /\ last = "navigation-started"
    /\ Len(markers) = 2
    /\ DistTo(1) = DistTo(2)
    /\ <<markers[1].lat, markers[1].lng>> # <<markers[2].lat, markers[2].lng>>
    /\ pendingNav = << [lat |-> markers[1].lat, lng |-> markers[1].lng] >>

\* C15: with an empty store or an unknown position handleFindNearest shows
\* an alert and does nothing else: nothing is injected, startNavigation is
\* not called, no subscription is created and the tracker is as before.
C15_FindNearestRefusesWithoutInputs ==
    [][(HandleFindNearest /\ (userLocation = NoLocation \/ markers = <<>>)) =>
          /\ last' \in {"alert-unknown-position", "alert-no-markers"}
          /\ last' = "alert-unknown-position" <=> userLocation = NoLocation
          /\ issued' = <<>>
          /\ pendingNav' = pendingNav
          /\ subs' = subs
          /\ navigationSubscription' = navigationSubscription
          /\ isNavigating' = isNavigating
          /\ userLocation' = userLocation
          /\ markers' = markers]_vars

\* handleFindNearest was refused because the store is empty, the position
\* being known
C15_Witness ==
    /\ last = "alert-no-markers"
    /\ markers = <<>>
    /\ userLocation # NoLocation
    /\ pendingNav = <<>>

\* handleFindNearest has measured the distances from the current position
MeasuredPairs ==
    IF userLocation = NoLocation \/ last # "navigation-started" THEN {}
    ELSE { <<userLocation, [lat |-> markers[n].lat, lng |-> markers[n].lng]>>
             : n \in 1..Len(markers) }

Abs(x) == IF x < 0 THEN -x ELSE x

\* C19: getDistance(P, P) = 0 and getDistance(P, Q) = getDistance(Q, P); the
\* result is the great-circle distance in km on a sphere of radius 6371:
\* never negative and, for two points of one meridian, 6371 times the
\* difference of their latitudes in radians (to the km).
C19_DistanceIsZeroOnSelfAndSymmetric ==
    \A pq \in MeasuredPairs :
        LET P == pq[1]
            Q == pq[2]
        IN  /\ getDistance(P.lat, P.lng, P.lat, P.lng) = 0
            /\ getDistance(Q.lat, Q.lng, Q.lat, Q.lng) = 0
            /\ getDistance(P.lat, P.lng, Q.lat, Q.lng)
                  = getDistance(Q.lat, Q.lng, P.lat, P.lng)
            /\ getDistance(P.lat, P.lng, Q.lat, Q.lng) >= 0
            /\ P.lng = Q.lng =>
                  Abs(getDistance(P.lat, P.lng, Q.lat, Q.lng)
                      - ((6371 * (Abs((Q.lat - P.lat) * 31416) \div 180)) \div 10000)) <= 1

\* distances were measured from a position to a marker at another latitude
\* and another longitude
C19_Witness ==
    \E pq \in MeasuredPairs : pq[1].lat # pq[2].lat /\ pq[1].lng # pq[2].lng

-----------------------------------------------------------------------------
(* The address search of MapComponent *)

\* texts of the search box
Queries == {"", "q"}

\* feature.center of a geocoding candidate: [lng, lat]
Centers == { <<10, 20>>, <<30, 40>>, <<50, 60>> }

\* data.features of a geocoding response, as the centers of its candidates
GeoResponses == SeqsUpTo(Centers, MaxCandidates)

FlyTo(lng, lat) == [type |-> "FLY_TO", payload |-> [lng |-> lng, lat |-> lat]]

\* onChangeText={setSearchQuery}
SetSearchQuery(q) ==
    /\ phase = "mounted"
    /\ screen = "MapComponent"
    /\ q # searchQuery
    /\ searchQuery' = q
    /\ issued' = <<>>
    /\ last' = "query-typed"
    /\ UNCHANGED <<location, pendingSearch, selectedMarker, pendingUi, isSaving,
                   screen, phase, storeVars, connVars, syncVars, navVars>>
    /\ SurfaceStep
    /\ UNCHANGED <<homeVars, formVars>>

\* searchLocation() up to its await
SearchLocation ==
    /\ phase = "mounted"
    /\ screen = "MapComponent"
    /\ IF searchQuery = ""
       THEN /\ last' = "alert-empty-query"
            /\ UNCHANGED pendingSearch
       ELSE /\ pendingSearch < MaxPendingSearch
            /\ pendingSearch' = pendingSearch + 1
            /\ last' = "search-requested"
    /\ issued' = <<>>
    /\ UNCHANGED <<location, searchQuery, selectedMarker, pendingUi, isSaving,
                   screen, phase, storeVars, connVars, syncVars, navVars>>
    /\ SurfaceStep
    /\ UNCHANGED <<homeVars, formVars>>

\* searchLocation after its awaits, taking the last candidate
SearchDoneLastCandidate(features) ==
    /\ pendingSearch > 0
    /\ pendingSearch' = pendingSearch - 1
    /\ IF Len(features) > 0
       THEN LET lng == features[Len(features)][1]
                lat == features[Len(features)][2]
            IN  /\ location' = IF phase = "mounted"
                                THEN [id |-> "searched-location", lat |-> lat, lng |-> lng]
                                ELSE location
                /\ issued' = injectJavaScript(WebViewRef, <<FlyTo(lng, lat)>>)
                /\ last' = "flown"
       ELSE /\ last' = "alert-not-found"
            /\ issued' = <<>>
            /\ UNCHANGED location
    /\ UNCHANGED <<searchQuery, selectedMarker, pendingUi, isSaving,
                   screen, phase, storeVars, connVars, syncVars, navVars>>
    /\ SurfaceStep
    /\ UNCHANGED <<homeVars, formVars>>

\* searchLocation after its awaits: the response has arrived and
\* data.features is features
SearchDone(features) ==
    /\ pendingSearch > 0
    /\ pendingSearch' = pendingSearch - 1
    /\ IF Len(features) > 0
       THEN LET lng == features[1][1]
                lat == features[1][2]
            IN  /\ location' = IF phase = "mounted"
                                THEN [id |-> "searched-location", lat |-> lat, lng |-> lng]
                                ELSE location
                /\ issued' = injectJavaScript(WebViewRef, <<FlyTo(lng, lat)>>)
                /\ last' = "flown"
       ELSE /\ last' = "alert-not-found"
            /\ issued' = <<>>
            /\ UNCHANGED location
    /\ UNCHANGED <<searchQuery, selectedMarker, pendingUi, isSaving,
                   screen, phase, storeVars, connVars, syncVars, navVars>>
    /\ SurfaceStep
    /\ UNCHANGED <<homeVars, formVars>>

\* the request fails or the body has no features: the catch alerts
SearchFail ==
    /\ pendingSearch > 0
    /\ pendingSearch' = pendingSearch - 1
    /\ issued' = <<>>
    /\ last' = "alert-search-error"
    /\ UNCHANGED <<location, searchQuery, selectedMarker, pendingUi, isSaving,
                   screen, phase, storeVars, connVars, syncVars, navVars>>
    /\ SurfaceStep
    /\ UNCHANGED <<homeVars, formVars>>

NextSearch ==
    \/ Mount
    \/ Unmount
    \/ \E q \in Queries : SetSearchQuery(q)
    \/ SearchLocation
    \/ \E features \in GeoResponses : SearchDone(features)
    \/ SearchFail

\* the address search of one MapComponent
SpecSearch == InitNavScreen /\ [][NextSearch]_vars

\* C20: searchLocation makes no request for an empty query and one for a
\* non-empty query; a response with candidates sets the location to the
\* position of the first candidate and issues exactly one FLY_TO to it; a
\* response without candidates reports 'not found', issues nothing and
\* leaves the location unchanged.
C20_SearchUsesFirstCandidate ==
    [][/\ SearchLocation =>
            /\ pendingSearch' = (IF searchQuery = "" THEN pendingSearch ELSE pendingSearch + 1)
            /\ searchQuery = "" => last' = "alert-empty-query"
            /\ issued' = <<>>
            /\ location' = location
       /\ \A features \in GeoResponses :
            (phase = "mounted" /\ SearchDone(features)) =>
                IF Len(features) > 0
                THEN /\ location' = [id |-> "searched-location",
                                     lat |-> Head(features)[2], lng |-> Head(features)[1]]
                     /\ issued' = << [type |-> "FLY_TO",
                                      payload |-> [lng |-> Head(features)[1],
                                                   lat |-> Head(features)[2]]] >>
                ELSE /\ last' = "alert-not-found"
                     /\ issued' = <<>>
                     /\ location' = location]_vars

\* a search has moved the map to a candidate while another search is pending
C20_Witness ==
    /\ last = "flown"
    /\ location.id = "searched-location"
    /\ Len(issued) = 1
    /\ pendingSearch = 1

-----------------------------------------------------------------------------
(* Selecting, saving and deleting a marker in MapComponent *)

\* how a PATCH or DELETE request ends: the expected confirmation, a rejected
\* fetch, a response that is not ok, a body that is not JSON, another message
Outcomes == {"confirmed", "network-error", "not-ok", "bad-json", "unexpected-message"}

UiRequest(op, id) == [op |-> op, id |-> id]

\* marker payloads a WebView message can carry
PostedMarkers == { JSONStringify(MapItemToMarker(p)) : p \in RawPlaces }

\* handleMessage(event): the WebView posts the marker m
SelectMarker(m) ==
    /\ phase = "mounted"
    /\ screen = "MapComponent"
    /\ selectedMarker' = m
    /\ issued' = <<>>
    /\ last' = "marker-selected"
    /\ UNCHANGED <<location, searchQuery, pendingSearch, pendingUi, isSaving,
                   screen, phase, storeVars, connVars, syncVars, navVars>>
    /\ SurfaceStep
    /\ UNCHANGED <<homeVars, formVars>>

\* handleSavePress() up to its await; complete tells whether the three edit
\* fields are filled in. The button is disabled while isSaving.
SavePress(complete) ==
    /\ phase = "mounted"
    /\ screen = "MapComponent"
    /\ ~isSaving
    /\ IF selectedMarker = NoMarker
       THEN /\ last' = "alert-no-selection"
            /\ UNCHANGED <<pendingUi, isSaving>>
       ELSE IF ~complete
            THEN /\ last' = "alert-incomplete"
                 /\ UNCHANGED <<pendingUi, isSaving>>
            ELSE /\ pendingUi' = Append(pendingUi, UiRequest("save", selectedMarker.id))
                 /\ isSaving' = TRUE
                 /\ last' = "save-requested"
    /\ issued' = <<>>
    /\ UNCHANGED <<location, searchQuery, pendingSearch, selectedMarker,
                   screen, phase, storeVars, connVars, syncVars, navVars>>
    /\ SurfaceStep
    /\ UNCHANGED <<homeVars, formVars>>

\* handleSavePress() whose state update appends the updated marker instead of
\* replacing the marker of the same id
SaveDoneAppends(i, outcome, data) ==
    /\ i \in 1..Len(pendingUi)
    /\ pendingUi[i].op = "save"
    /\ pendingUi' = RemoveAt(pendingUi, i)
    /\ isSaving' = FALSE
    /\ IF outcome = "confirmed"
       THEN LET updatedMarker == MarkerData(pendingUi[i].id, data.latitude, data.longitude,
                                            data.pollution_level, data.plastic_level,
                                            data.status)
            IN  /\ markers' = IF phase = "mounted" /\ Len(markers) < MaxStore + 1
                               THEN Append(markers, updatedMarker)
                               ELSE markers
                /\ issued' = injectJavaScript(WebViewRef, <<RemoveMarker(pendingUi[i].id)>>)
                              \o injectJavaScript(WebViewRef, <<AddMarker(updatedMarker)>>)
                /\ selectedMarker' = IF phase = "mounted" THEN updatedMarker
                                      ELSE selectedMarker
                /\ last' = "saved"
       ELSE /\ issued' = <<>>
            /\ last' = "alert-save-error"
            /\ UNCHANGED <<markers, selectedMarker>>
    /\ UNCHANGED <<location, searchQuery, pendingSearch, inflight,
                   screen, phase, connVars, syncVars, navVars>>
    /\ SurfaceStep
    /\ UNCHANGED <<homeVars, formVars>>

\* handleSavePress() that applies the update whatever data.message is
SaveDoneAnyMessage(i, outcome, data) ==
    /\ i \in 1..Len(pendingUi)
    /\ pendingUi[i].op = "save"
    /\ pendingUi' = RemoveAt(pendingUi, i)
    /\ isSaving' = FALSE
    /\ IF outcome \in {"confirmed", "unexpected-message"}
       THEN LET updatedMarker == MarkerData(pendingUi[i].id, data.latitude, data.longitude,
                                            data.pollution_level, data.plastic_level,
                                            data.status)
            IN  /\ markers' = IF phase = "mounted" THEN ReplaceById(markers, updatedMarker)
                               ELSE markers
                /\ issued' = injectJavaScript(WebViewRef, <<RemoveMarker(pendingUi[i].id)>>)
                              \o injectJavaScript(WebViewRef, <<AddMarker(updatedMarker)>>)
                /\ selectedMarker' = IF phase = "mounted" THEN updatedMarker
                                      ELSE selectedMarker
                /\ last' = "saved"
       ELSE /\ issued' = <<>>
            /\ last' = "alert-save-error"
            /\ UNCHANGED <<markers, selectedMarker>>
    /\ UNCHANGED <<location, searchQuery, pendingSearch, inflight,
                   screen, phase, connVars, syncVars, navVars>>
    /\ SurfaceStep
    /\ UNCHANGED <<homeVars, formVars>>

\* handleSavePress() after its awaits: the i-th request ends with outcome,
\* data being data.data of a confirmation
SaveDone(i, outcome, data) ==
    /\ i \in 1..Len(pendingUi)
    /\ pendingUi[i].op = "save"
    /\ pendingUi' = RemoveAt(pendingUi, i)
    /\ isSaving' = FALSE
    /\ IF outcome = "confirmed"
       THEN LET updatedMarker == MarkerData(pendingUi[i].id, data.latitude, data.longitude,
                                            data.pollution_level, data.plastic_level,
                                            data.status)
            IN  /\ markers' = IF phase = "mounted" THEN ReplaceById(markers, updatedMarker)
                               ELSE markers
                /\ issued' = injectJavaScript(WebViewRef, <<RemoveMarker(pendingUi[i].id)>>)
                              \o injectJavaScript(WebViewRef, <<AddMarker(updatedMarker)>>)
                /\ selectedMarker' = IF phase = "mounted" THEN updatedMarker
                                      ELSE selectedMarker
                /\ last' = "saved"
       ELSE /\ issued' = <<>>
            /\ last' = "alert-save-error"
            /\ UNCHANGED <<markers, selectedMarker>>
    /\ UNCHANGED <<location, searchQuery, pendingSearch, inflight,
                   screen, phase, connVars, syncVars, navVars>>
    /\ SurfaceStep
    /\ UNCHANGED <<homeVars, formVars>>

\* handleDeletePress() and the 'Eliminar' button of its confirmation, up to
\* the await. The button is disabled while isSaving.
DeletePress ==
    /\ phase = "mounted"
    /\ screen = "MapComponent"
    /\ ~isSaving
    /\ IF selectedMarker = NoMarker
       THEN /\ last' = "alert-no-selection"
            /\ UNCHANGED <<pendingUi, isSaving>>
       ELSE /\ pendingUi' = Append(pendingUi, UiRequest("delete", selectedMarker.id))
            /\ isSaving' = TRUE
            /\ last' = "delete-requested"
    /\ issued' = <<>>
    /\ UNCHANGED <<location, searchQuery, pendingSearch, selectedMarker,
                   screen, phase, storeVars, connVars, syncVars, navVars>>
    /\ SurfaceStep
    /\ UNCHANGED <<homeVars, formVars>>

\* the onPress of 'Eliminar' after its awaits: the i-th request ends
DeleteDone(i, outcome) ==
    /\ i \in 1..Len(pendingUi)
    /\ pendingUi[i].op = "delete"
    /\ pendingUi' = RemoveAt(pendingUi, i)
    /\ isSaving' = FALSE
    /\ IF outcome = "confirmed"
       THEN /\ markers' = IF phase = "mounted" THEN RemoveById(markers, pendingUi[i].id)
                           ELSE markers
            /\ issued' = injectJavaScript(WebViewRef, <<RemoveMarker(pendingUi[i].id)>>)
            /\ selectedMarker' = IF phase = "mounted" THEN NoMarker ELSE selectedMarker
            /\ last' = "deleted-by-user"
       ELSE /\ issued' = <<>>
            /\ last' = "alert-delete-error"
            /\ UNCHANGED <<markers, selectedMarker>>
    /\ UNCHANGED <<location, searchQuery, pendingSearch, inflight,
                   screen, phase, connVars, syncVars, navVars>>
    /\ SurfaceStep
    /\ UNCHANGED <<homeVars, formVars>>

\* response bodies whose items carry pairwise distinct ids
DistinctResponses ==
    { data \in Responses :
        \A n, k \in 1..Len(data) :
            n # k => (data[n].place_id # data[k].place_id /\ data[n].id # data[k].id) }

NextUnique ==
    \/ Mount
    \/ Unmount
    \/ \E s \in SocketIds, msg \in Messages, r \in Randoms : OnMessage(s, msg, r)
    \/ \E i \in 1..MaxInflight, data \in DistinctResponses :
          \E rs \in RandomsFor(data) : FetchDone(i, data, rs)
    \/ \E i \in 1..MaxInflight : FetchFail(i)
    \/ IntervalTick
    \/ \E m \in PostedMarkers : SelectMarker(m)
    \/ \E complete \in BOOLEAN : SavePress(complete)
    \/ \E i \in 1..MaxInflight, outcome \in Outcomes, data \in RawPlaces :
          SaveDone(i, outcome, data)
    \/ DeletePress
    \/ \E i \in 1..MaxInflight, outcome \in Outcomes : DeleteDone(i, outcome)

\* the Marker Store under bulk fetches with distinct ids, push events and
\* the save and delete of the selected marker
SpecUnique == InitScreen /\ [][NextUnique]_vars

\* C16: no two markers of the Marker Store have the same id, after any
\* sequence of bulk fetches whose responses carry pairwise distinct ids, push
\* events and save and delete operations.
C16_StoreIdsAreUnique ==
    \A i, j \in 1..Len(markers) : i # j => markers[i].id # markers[j].id

\* a save has replaced one of two markers of the store
C16_Witness ==
    /\ last = "saved"
    /\ Len(markers) = 2
    /\ \E i \in 1..2 : markers[i] = selectedMarker

-----------------------------------------------------------------------------
(* The Marker Store and the Rendering Surface together *)

\* the click listener addMarker gives a marker of the document: it posts the
\* payload the marker was added with, and handleMessage selects it
ClickMarker(m) ==
    /\ m \in markersMap
    /\ SelectMarker(m)

NextSurface ==
    \/ Mount
    \/ Unmount
    \/ DocumentLoaded
    \/ \E s \in SocketIds, msg \in Messages, r \in Randoms : OnMessage(s, msg, r)
    \/ \E i \in 1..MaxInflight, data \in DistinctResponses :
          \E rs \in RandomsFor(data) : FetchDone(i, data, rs)
    \/ \E i \in 1..MaxInflight : FetchFail(i)
    \/ \E q \in Queries : SetSearchQuery(q)
    \/ SearchLocation
    \/ \E features \in GeoResponses : SearchDone(features)
    \/ SearchFail

\* one MapComponent with its WebView document, under the bulk fetch with
\* distinct ids, push events and address searches
SpecSurface == InitNavScreen /\ [][NextSurface]_vars

\* the ids of the markers the document holds
SurfaceIds == { m.id : m \in markersMap }

NextSurfacePush ==
    \/ Mount
    \/ Unmount
    \/ DocumentLoaded
    \/ \E s \in SocketIds, msg \in Messages, r \in Randoms : OnMessage(s, msg, r)
    \/ \E i \in 1..MaxInflight, data \in DistinctResponses :
          \E rs \in RandomsFor(data) : FetchDone(i, data, rs)
    \/ \E i \in 1..MaxInflight : FetchFail(i)

\* one MapComponent with its WebView document, under the bulk fetch with
\* distinct ids and push events
SpecSurfacePush == InitNavScreen /\ [][NextSurfacePush]_vars

\* C21: the bulk-fetch handler reconciles against the Marker Store as it is
\* when the response is applied, so a marker a push 'added' event inserted
\* while the fetch was in flight is afterwards in both the store and the
\* Rendering Surface or in neither.
C21_FetchKeepsPushedMarker ==
    [][\A i \in 1..MaxInflight, data \in DistinctResponses :
          (/\ phase = "mounted" /\ documentLoaded
           /\ last = "added"
           /\ FetchDone(i, data, [n \in 1..Len(data) |-> "0.1"])) =>
              LET x == markers[Len(markers)].id
              IN  /\ issued' = syncMarkersWithMap(TRUE, markers, markers')
                  /\ x \in IdSet(markers') <=> x \in SurfaceIds']_vars

\* C23: an 'updated' push event for id x injects exactly REMOVE_MARKER{id: x}
\* and then ADD_MARKER with the updated marker, and a document that has
\* loaded holds for x the payload of the updated marker afterwards.
C23_UpdatedRemovesThenAdds ==
    [][\A p \in RawPlaces :
          Delivers(UpdatedMsg(p)) =>
              LET marker == MapItemToMarker(p)
              IN  /\ issued' = <<RemoveMarker(marker.id), AddMarker(marker)>>
                  /\ documentLoaded =>
                        /\ JSONStringify(marker) \in markersMap'
                        /\ \A m \in markersMap' :
                              m.id = marker.id => m = JSONStringify(marker)]_vars

\* an 'updated' event has replaced, in the store and in the document, a
\* marker both held
C23_Witness ==
    /\ last = "updated"
    /\ documentLoaded
    /\ Len(issued) = 2
    /\ \E i \in 1..Len(markers) :
          /\ markers[i].id = issued[1].payload.id
          /\ markers[i].status = "Completo"
          /\ JSONStringify(markers[i]) \in markersMap

\* C25: the document holds markers for exactly the ids of the Marker Store
\* whenever no handler runs: a handler that starts with the two equal leaves
\* them equal.
C25_SurfaceHoldsTheIdsOfTheStore ==
    [][(/\ phase = "mounted" /\ phase' = "mounted"
        /\ documentLoaded
        /\ SurfaceIds = IdSet(markers)) =>
            SurfaceIds' = IdSet(markers')]_vars

-----------------------------------------------------------------------------
(* Claims about the resources of the screen *)

\* C22: once the screen has unmounted or the app is in background, every
\* socket opened has been closed and every position subscription created has
\* been removed: none is active.
C22_TeardownReleasesEverything ==
    (phase = "unmounted" \/ (phase = "mounted" /\ MatchesInactiveOrBackground(osAppState)))
        => (OpenSockets = {} /\ ActiveSubs = {})

\* C26: at most one position subscription is active at a time, and
\* navigationSubscription refers to every subscription that is active.
C26_AtMostOneActiveSubscription ==
    /\ Cardinality(ActiveSubs) <= 1
    /\ \A k \in ActiveSubs : navigationSubscription = k

\* C27: the tracker never rests in Navigating without a position
\* subscription: with no startNavigation call pending, isNavigating implies
\* that navigationSubscription is set.
C27_NavigatingHasSubscription ==
    (phase = "mounted" /\ isNavigating /\ pendingNav = <<>>)
        => navigationSubscription # 0

-----------------------------------------------------------------------------
(* Claims about save and delete *)

NextUi ==
    \/ Mount
    \/ Unmount
    \/ DocumentLoaded
    \/ \E i \in 1..MaxInflight, data \in DistinctResponses :
          \E rs \in RandomsFor(data) : FetchDone(i, data, rs)
    \/ \E i \in 1..MaxInflight : FetchFail(i)
    \/ \E m \in PostedMarkers : ClickMarker(m)
    \/ \E complete \in BOOLEAN : SavePress(complete)
    \/ \E i \in 1..MaxInflight, outcome \in Outcomes, data \in RawPlaces :
          SaveDone(i, outcome, data)
    \/ DeletePress
    \/ \E i \in 1..MaxInflight, outcome \in Outcomes : DeleteDone(i, outcome)

\* one MapComponent whose user clicks markers of the document, saves and
\* deletes
SpecUi == InitNavScreen /\ [][NextUi]_vars

\* C28: a save or delete request that does not end with the expected
\* confirmation leaves the Marker Store and selectedMarker as they were and
\* injects no REMOVE_MARKER or ADD_MARKER; a confirmed one updates them; and
\* isSaving is false once the operation has finished, whatever its outcome.
C28_SaveAndDeleteMutateOnlyOnSuccess ==
    [][\A i \in 1..MaxInflight, outcome \in Outcomes, data \in RawPlaces :
          (SaveDone(i, outcome, data) \/ DeleteDone(i, outcome)) =>
              /\ ~isSaving'
              /\ outcome # "confirmed" =>
                    /\ markers' = markers
                    /\ selectedMarker' = selectedMarker
                    /\ issued' = <<>>
              /\ (outcome = "confirmed" /\ phase = "mounted") =>
                    /\ Len(issued') >= 1
                    /\ issued'[1] = RemoveMarker(pendingUi[i].id)
                    /\ selectedMarker' = NoMarker \/ selectedMarker'.id = pendingUi[i].id
                    /\ IdSet(markers') \subseteq IdSet(markers)]_vars

\* a save request has failed while the store holds the marker it was for
C28_Witness ==
    /\ last = "alert-save-error"
    /\ ~isSaving
    /\ selectedMarker # NoMarker
    /\ SomeId(markers, selectedMarker.id)
    /\ pendingUi = <<>>

-----------------------------------------------------------------------------
(* Claims about push messages without the required fields *)

\* a place record that lacks a required field; of the records a message
\* carries here, the one without place_id
LacksRequiredField(p) == p.place_id = Undefined

\* C24: a push message that parses as JSON and whose place lacks place_id,
\* latitude or longitude is dropped: the Marker Store is unchanged and no
\* instruction is issued to the Rendering Surface.
C24_PlaceWithoutRequiredFieldIsDropped ==
    [][\A p \in RawPlaces, a \in {"added", "updated", "deleted"} :
          (/\ LacksRequiredField(p)
           /\ Delivers([kind |-> "object", data |-> Envelope(a, TRUE, p, Undefined)])) =>
              /\ markers' = markers
              /\ issued' = <<>>]_vars

-----------------------------------------------------------------------------
(* HomeScreen (App.tsx), AuthScreen and the photo list of                  *)
(* InsertarCoordenadasComponent                                            *)

MaxImages == 2         \* longest images list a photo is still added to
MaxPendingPhoto == 2   \* handleTakePhoto / handlePickImage calls awaiting at a time
MaxPendingWrites == 2  \* AsyncStorage.setItem calls not yet completed at a time

\* uris the camera or the gallery returns
Uris == {"file:1", "file:2"}

\* what HomeScreen renders
Shown ==
    IF isLoading THEN "SplashScreen"
    ELSE IF ~isAuthenticated /\ ~isVisitor THEN "AuthScreen"
         ELSE "DrawerNavigator"

\* the state after HomeScreen is constructed
InitHome ==
    /\ isLoading = TRUE /\ isAuthenticated = FALSE /\ isVisitor = FALSE
    /\ isRegister = FALSE
    /\ formMounted = FALSE /\ images = <<>> /\ savedImages \in {NoItem, Item(<<"file:1">>)}
    /\ pendingPhoto = <<>> /\ pendingWrites = <<>> /\ pendingLoad = FALSE

InitApp ==
    /\ screen = "MapComponent"
    /\ phase = "init"
    /\ issued = <<>>
    /\ last = "none"
    /\ InitStore /\ InitConn /\ InitNav /\ InitSyncIdle /\ InitUi /\ InitSurface
    /\ InitHome

\* what becomes of the form when HomeScreen renders with the new state: the
\* instance under the navigator is destroyed with it, the calls it is
\* awaiting go on without it
FormAfterRender(shown) ==
    IF shown = "DrawerNavigator"
    THEN UNCHANGED formVars
    ELSE /\ formMounted' = FALSE
         /\ images' = <<>>
         /\ pendingLoad' = FALSE
         /\ pendingPhoto' = [k \in 1..Len(pendingPhoto) |->
                               [pendingPhoto[k] EXCEPT !.detached = TRUE]]
         /\ UNCHANGED <<savedImages, pendingWrites>>

\* loadApp() after its 3 s timer
LoadApp ==
    /\ isLoading
    /\ isLoading' = FALSE
    /\ UNCHANGED <<isAuthenticated, isVisitor, isRegister, formVars, mapState>>
    /\ last' = "loaded"

\* onNavigate of Login
LoginNavigate ==
    /\ Shown = "AuthScreen"
    /\ ~isRegister
    /\ isRegister' = TRUE
    /\ UNCHANGED <<isLoading, isAuthenticated, isVisitor, formVars, mapState>>
    /\ last' = "to-register"

\* onNavigate of Register
RegisterNavigate ==
    /\ Shown = "AuthScreen"
    /\ isRegister
    /\ isRegister' = FALSE
    /\ UNCHANGED <<isLoading, isAuthenticated, isVisitor, formVars, mapState>>
    /\ last' = "to-login"

\* onLogin of Login; AuthScreen is unmounted and its state is gone
OnLogin ==
    /\ Shown = "AuthScreen"
    /\ ~isRegister
    /\ isAuthenticated' = TRUE
    /\ isRegister' = FALSE
    /\ UNCHANGED <<isLoading, isVisitor, formVars, mapState>>
    /\ last' = "login"

\* onRegister of Register
OnRegister ==
    /\ Shown = "AuthScreen"
    /\ isRegister
    /\ isAuthenticated' = TRUE
    /\ isRegister' = FALSE
    /\ UNCHANGED <<isLoading, isVisitor, formVars, mapState>>
    /\ last' = "register"

\* onVisit of VisitorOption
OnVisitor ==
    /\ Shown = "AuthScreen"
    /\ isVisitor' = TRUE
    /\ isRegister' = FALSE
    /\ UNCHANGED <<isLoading, isAuthenticated, formVars, mapState>>
    /\ last' = "visitor"

\* onLogout of DrawerNavigator
OnLogout ==
    /\ Shown = "DrawerNavigator"
    /\ isAuthenticated' = FALSE
    /\ UNCHANGED <<isLoading, isVisitor, isRegister, mapState>>
    /\ FormAfterRender(IF isVisitor THEN "DrawerNavigator" ELSE "AuthScreen")
    /\ last' = "logout"

\* InsertarCoordenadasComponent is mounted under the navigator: its state is
\* constructed and the mount effect calls loadImages()
FormMount ==
    /\ Shown = "DrawerNavigator"
    /\ ~formMounted
    /\ formMounted' = TRUE
    /\ images' = <<>>
    /\ pendingLoad' = TRUE
    /\ UNCHANGED <<savedImages, pendingPhoto, pendingWrites, homeVars, mapState>>
    /\ last' = "form-mounted"

\* loadImages() after its await; fails tells whether getItem or JSON.parse
\* threw
LoadImagesDone(fails) ==
    /\ pendingLoad
    /\ pendingLoad' = FALSE
    /\ images' = IF ~fails /\ savedImages.exists THEN savedImages.value ELSE images
    /\ UNCHANGED <<formMounted, savedImages, pendingPhoto, pendingWrites, homeVars, mapState>>
    /\ last' = "images-loaded"

\* saveImagesToLocalStorage(newImages) up to its await
saveImagesToLocalStorage(newImages) == Append(pendingWrites, newImages)

\* handleTakePhoto() ("camera") and handlePickImage() ("gallery") up to the
\* first await: the call keeps the images of the render it was made in
PhotoPress(source) ==
    /\ formMounted
    /\ Len(pendingPhoto) < MaxPendingPhoto
    /\ Len(images) < MaxImages
    /\ pendingPhoto' = Append(pendingPhoto,
                              [source |-> source, images |-> images, detached |-> FALSE])
    /\ UNCHANGED <<formMounted, images, savedImages, pendingWrites, pendingLoad,
                   homeVars, mapState>>
    /\ last' = "photo-requested"

\* results of the two awaits: permission denied, picker canceled, or a uri
PhotoResults == {"denied", "canceled"} \cup Uris

\* handleTakePhoto() / handlePickImage() after their awaits
PhotoDone(i, result) ==
    /\ i \in 1..Len(pendingPhoto)
    /\ Len(pendingWrites) < MaxPendingWrites
    /\ pendingPhoto' = RemoveAt(pendingPhoto, i)
    /\ IF result \in Uris
       THEN LET updatedImages == Append(pendingPhoto[i].images, result)
            IN  /\ images' = IF pendingPhoto[i].detached THEN images ELSE updatedImages
                /\ pendingWrites' = saveImagesToLocalStorage(updatedImages)
       ELSE UNCHANGED <<images, pendingWrites>>
    /\ UNCHANGED <<formMounted, savedImages, pendingLoad, homeVars, mapState>>
    /\ last' = "photo-done"

\* handleRemoveImage(index), index counted from 1
RemoveImage(index) ==
    /\ formMounted
    /\ index \in 1..Len(images)
    /\ Len(pendingWrites) < MaxPendingWrites
    /\ LET updatedImages == RemoveAt(images, index)
       IN  /\ images' = updatedImages
           /\ pendingWrites' = saveImagesToLocalStorage(updatedImages)
    /\ UNCHANGED <<formMounted, savedImages, pendingPhoto, pendingLoad, homeVars, mapState>>
    /\ last' = "image-removed"

\* saveImagesToLocalStorage after its await: the oldest setItem completes,
\* or throws and is logged
WriteDone(fails) ==
    /\ pendingWrites # <<>>
    /\ pendingWrites' = Tail(pendingWrites)
    /\ savedImages' = IF fails THEN savedImages ELSE Item(Head(pendingWrites))
    /\ UNCHANGED <<formMounted, images, pendingPhoto, pendingLoad, homeVars, mapState>>
    /\ last' = "images-saved"

NextApp ==
    \/ LoadApp
    \/ LoginNavigate
    \/ RegisterNavigate
    \/ OnLogin
    \/ OnRegister
    \/ OnVisitor
    \/ OnLogout
    \/ FormMount
    \/ \E fails \in BOOLEAN : LoadImagesDone(fails)
    \/ \E source \in {"camera", "gallery"} : PhotoPress(source)
    \/ \E i \in 1..MaxPendingPhoto, result \in PhotoResults : PhotoDone(i, result)
    \/ \E index \in 1..MaxImages : RemoveImage(index)
    \/ \E fails \in BOOLEAN : WriteDone(fails)

\* HomeScreen, AuthScreen and the photo list of the form under the navigator
SpecApp == InitApp /\ [][NextApp]_vars

\* C29: the main navigator is shown only when loading has finished and the
\* user is authenticated or a visitor; and whenever the main navigator is
\* shown, onLogout leads to the authentication screen.
C29_LogoutLeadsToAuthScreen ==
    [][/\ Shown' = "DrawerNavigator" => (~isLoading' /\ (isAuthenticated' \/ isVisitor'))
       /\ OnLogout => Shown' = "AuthScreen"]_vars

\* C30: a photo that handleTakePhoto or handlePickImage adds never loses an
\* update: the list after it holds every uri the list before it held,
\* followed by the new uri; and handleRemoveImage removes the image of its
\* index only.
C30_NoLostPhoto ==
    [][/\ \A i \in 1..MaxPendingPhoto, uri \in Uris :
            (/\ i <= Len(pendingPhoto)
             /\ ~pendingPhoto[i].detached
             /\ PhotoDone(i, uri)) => images' = Append(images, uri)
       /\ \A index \in 1..MaxImages :
            RemoveImage(index) => images' = RemoveAt(images, index)]_vars

====
